---- MODULE Spec2Model ----
(***************************************************************************)
(* State-machine model of contracts/BlindBidAuction.sol: the lot registry, *)
(* the encrypted bid book with its homomorphic running maximum, the access *)
(* control list of the ciphertext handles, and the close / reveal /        *)
(* settle handshake.  One action per external function.  The revert       *)
(* conditions of a function are its XxxError operator, evaluated in the    *)
(* state the call is made in; a call is a step exactly when that operator  *)
(* is "OK", because a reverting call rolls the whole storage back.         *)
(* The module state of src/lib/fhe.ts (the SDK instance, the promise of   *)
(* the initialization in progress and the initialization state) is        *)
(* modelled next to it, one action per stretch of code between awaits.    *)
(***************************************************************************)
EXTENDS Integers, Sequences, FiniteSets, TLC

\* ---------------------------------------------------------------- bounds
MaxLots == 2          \* lots created in Spec
MaxBids == 2          \* bids accepted over all lots in Spec
MaxTime == 3          \* block.timestamp ranges over 0..MaxTime

\* ------------------------------------------------------- input alphabets
ZERO == "0x0"                                   \* address(0)
THIS == "this"                                  \* address(this)
DEPLOYER == "owner"                             \* msg.sender of the constructor
Addr == {"owner", "cur", "A", "B", "C", "gw1", "gw2"}
CreateCallers == {"cur"}                        \* curators
BidCallers == {"A", "B"}                        \* bidders of Spec, SpecGateway
BookCallers == {"A", "B", "C"}                  \* bidders of SpecBook
OperatorArgs == {ZERO, "gw1", "gw2"}            \* operators of SpecGateway
RegistryOperators == {ZERO, "gw1"}              \* operators of Spec
BidderArgs == {ZERO, "A", "B", "C"}
StartArgs == {1}                                \* startTime of the lots created
EndArgs == {2}                                  \* endTime of the lots created
TimeArgs == 0..MaxTime                          \* timestamps a call may name
Amounts == {1, 2}                               \* cleartext bid values
SaltArgs == {0, 1, 2, 3}                        \* 0 is bytes32(0)
RegistrySalts == {0, 1, 2}                      \* salts of Spec, SpecGateway
RegistryAmounts == {2}                          \* amounts of Spec, SpecGateway
IndexArgs == {0, 1, 2, 3}
LotArgs == 0..MaxLots
URI == "ipfs://lot"

\* --------------------------------------------------- ciphertext handles
\* A handle is <<kind, lot, i>>.  Handles of @fhevm/solidity are hashes of
\* the operation and its operands, so the trivial encryptions are shared
\* by all lots while select results are their own.  An externalEuint64
\* argument is the handle of an encrypted input of the caller, and
\* FHE.fromExternal returns that handle: a caller who passes one input
\* twice gets one handle twice.  ExternalReserve and ExternalBid are the
\* handles of new inputs, named after the place they are first passed to.
NoHandle == <<"nil", 0, 0>>                     \* uninitialised euint
ExternalReserve(lotId) == <<"res", lotId, 0>>   \* a new encrypted input
ExternalBid(lotId, i) == <<"bid", lotId, i>>    \* a new encrypted input
Gt64(lotId, i) == <<"gt", lotId, i>>
Sel64(lotId, i) == <<"sel64", lotId, i>>
Sel32(lotId, i) == <<"sel32", lotId, i>>

VARIABLES
    now,              \* block.timestamp
    nextLotId,        \* _nextLotId
    owner,
    gatewayOperator,
    lots,             \* _lots
    bids,             \* _bids
    saltRegistry,     \* _saltRegistry
    indexToBidder,    \* _indexToBidder
    lotParticipants,  \* _lotParticipants
    lotIds,           \* _lotIds
    cipher,           \* coprocessor: handle -> cleartext
    acl,              \* ACL: set of <<handle, address>> decrypt grants
    closeLog,         \* per lot, the LotClosed / RevealRequested pairs emitted
    bidLog,           \* per lot, the BidSubmitted events emitted
    lotLog,           \* per lot, every event emitted for the lot, in order
    operatorEvent,    \* the latest GatewayOperatorUpdated, <<>> before the first
    fheInstance,      \* lib/fhe.ts: the cached SDK instance, NoInstance for null
    initPromise,      \* lib/fhe.ts: the promise of an initialization, NoPromise for null
    initState,        \* lib/fhe.ts: initState.status
    runs,             \* the initializations started so far and their progress
    nextRun,          \* the next initialization to start
    calls,            \* per caller, the promise returned by ensureFheInstance
    stateChangeListeners, \* lib/fhe.ts: the listeners registered
    stack             \* the calls of setInitState whose listeners are running

storage == <<nextLotId, owner, gatewayOperator, lots, bids, saltRegistry,
             indexToBidder, lotParticipants, lotIds, cipher, acl, closeLog, bidLog,
             lotLog, operatorEvent>>
fheVars == <<fheInstance, initPromise, initState, runs, nextRun, calls,
             stateChangeListeners, stack>>
vars == <<now, nextLotId, owner, gatewayOperator, lots, bids, saltRegistry,
          indexToBidder, lotParticipants, lotIds, cipher, acl, closeLog, bidLog,
          lotLog, operatorEvent, fheVars>>

\* ------------------------------------------------------------ structures
EmptyLot ==
    [curator |-> ZERO, startTime |-> 0, endTime |-> 0, closed |-> FALSE,
     revealRequested |-> FALSE, settled |-> FALSE, bidCount |-> 0,
     encryptedReserve |-> NoHandle, encryptedWinningBid |-> NoHandle,
     encryptedWinningIndex |-> NoHandle, winner |-> ZERO,
     revealedAmount |-> 0, metadataURI |-> ""]

EmptyEnvelope ==
    [amount |-> NoHandle, saltHash |-> 0, submittedAt |-> 0, index |-> 0,
     isSealed |-> FALSE]

\* ------------------------------------------------------------ FHE library
FHEasEuint64(v) == <<"triv64", 0, v>>
FHEasEuint32(v) == <<"triv32", 0, v>>

\* FHE.gt on cleartexts: strictly greater
FHEgt(a, b) == a > b

\* FHE.select on cleartexts
FHEselect(c, a, b) == IF c THEN a ELSE b

\* FHE.allowThis / FHE.allow: idempotent grants
Allow(grants, h, who) == grants \cup {<<h, who>>}
AllowGateway(grants, h, op) == IF op # ZERO THEN Allow(grants, h, op) ELSE grants

\* grants for the contract, one account and the configured operator
AllowAll(grants, h, who, op) == AllowGateway(Allow(Allow(grants, h, THIS), h, who), h, op)

IsAllowed(h, who) == <<h, who>> \in acl

Store(c, h, v) == (h :> v) @@ c

\* ------------------------------------------------- lib/fhe.ts: structures
MaxRuns == 3                     \* initializations started in one behaviour
MAX_RETRY_ATTEMPTS == 3
RunIds == 1..MaxRuns
CallerIds == {"c1", "c2"}        \* components awaiting ensureFheInstance
\* the listeners passed to onFheStateChange: the setState of a React
\* component, which only records the state, and a listener that is any
\* other function: when it is notified it may call the exported functions
\* of the module and it may throw
ListenerIds == {"setFheState", "listener"}
NoInstance == 0                  \* fheInstance = null
NoPromise == 0                   \* initPromise = null

\* an initialization that was not started yet
NoRun == [status |-> "none", attempt |-> 0, stale |-> FALSE]

\* a caller that has not called ensureFheInstance yet
NoCall == [status |-> "none", promise |-> NoPromise, value |-> NoInstance]

\* the module state of lib/fhe.ts when the module is loaded
InitFhe ==
    /\ fheInstance = NoInstance
    /\ initPromise = NoPromise
    /\ initState = "idle"
    /\ runs = [r \in RunIds |-> NoRun]
    /\ nextRun = 1
    /\ calls = [c \in CallerIds |-> NoCall]
    /\ stateChangeListeners = {}
    /\ stack = <<>>

\* ------------------------------------------------------------------ Init
\* (variant: the id counter starts at 0)
InitIdZero ==
    /\ now = 0
    /\ nextLotId = 0
    /\ owner = DEPLOYER
    /\ gatewayOperator = ZERO
    /\ lots = [l \in LotArgs |-> EmptyLot]
    /\ bids = [l \in LotArgs |-> [a \in Addr |-> EmptyEnvelope]]
    /\ saltRegistry = [l \in LotArgs |-> {}]
    /\ indexToBidder = [l \in LotArgs |-> [i \in IndexArgs |-> ZERO]]
    /\ lotParticipants = [l \in LotArgs |-> <<>>]
    /\ lotIds = <<>>
    /\ cipher = (NoHandle :> 0)
    /\ acl = {}
    /\ closeLog = [l \in LotArgs |-> <<>>]
    /\ bidLog = [l \in LotArgs |-> <<>>]
    /\ lotLog = [l \in LotArgs |-> <<>>]
    /\ operatorEvent = <<>>
    /\ InitFhe

Init ==
    /\ now = 0
    /\ nextLotId = 1
    /\ owner = DEPLOYER
    /\ gatewayOperator = ZERO
    /\ lots = [l \in LotArgs |-> EmptyLot]
    /\ bids = [l \in LotArgs |-> [a \in Addr |-> EmptyEnvelope]]
    /\ saltRegistry = [l \in LotArgs |-> {}]
    /\ indexToBidder = [l \in LotArgs |-> [i \in IndexArgs |-> ZERO]]
    /\ lotParticipants = [l \in LotArgs |-> <<>>]
    /\ lotIds = <<>>
    /\ cipher = (NoHandle :> 0)
    /\ acl = {}
    /\ closeLog = [l \in LotArgs |-> <<>>]
    /\ bidLog = [l \in LotArgs |-> <<>>]
    /\ lotLog = [l \in LotArgs |-> <<>>]
    /\ operatorEvent = <<>>
    /\ InitFhe

\* ------------------------------------------------------ encrypted inputs
\* the encrypted inputs caller has passed so far: the proof of an input
\* binds it to the contract and to its user, so a caller can pass these
\* again, and no one else can
OwnInputs(caller) ==
    {lots[l].encryptedReserve : l \in {x \in LotArgs : lots[x].curator = caller}}
       \cup {bids[l][caller].amount : l \in {x \in LotArgs : bids[x][caller].saltHash # 0}}

\* the cleartext behind an input: the one it was encrypted from
Cleartext(h, clear) == IF h \in DOMAIN cipher THEN cipher[h] ELSE clear

\* ------------------------------------------------------------- createLot
\* (variant: an endTime that is not in the future is accepted)
CreateLotErrorNoFutureCheck(startTime, endTime, proofOk) ==
    IF endTime <= startTime THEN "InvalidWindow"
    ELSE IF ~proofOk THEN "InvalidProof"
    ELSE "OK"

CreateLotError(startTime, endTime, proofOk) ==
    IF endTime <= startTime \/ endTime <= now THEN "InvalidWindow"
    ELSE IF ~proofOk THEN "InvalidProof"
    ELSE "OK"

createLot(caller, startTime, endTime, encryptedReserve, proofOk) ==
    LET lotId == nextLotId
        reserve == encryptedReserve
        zero64 == FHEasEuint64(0)
        zero32 == FHEasEuint32(0)
    IN  /\ CreateLotError(startTime, endTime, proofOk) = "OK"
        /\ nextLotId' = nextLotId + 1
        /\ lots' = [lots EXCEPT ![lotId] =
                      [lots[lotId] EXCEPT !.curator = caller,
                                       !.startTime = startTime,
                                       !.endTime = endTime,
                                       !.metadataURI = URI,
                                       !.encryptedReserve = reserve,
                                       !.encryptedWinningBid = zero64,
                                       !.encryptedWinningIndex = zero32]]
        /\ cipher' = Store(Store(Store(cipher, reserve, Cleartext(reserve, 1)),
                                 zero64, 0), zero32, 0)
        /\ acl' = AllowAll(AllowAll(AllowAll(acl, reserve, caller, gatewayOperator),
                                    zero64, caller, gatewayOperator),
                           zero32, caller, gatewayOperator)
        /\ lotIds' = Append(lotIds, lotId)
        /\ lotLog' = [lotLog EXCEPT ![lotId] =
                        Append(@, <<"LotCreated", lotId, caller, startTime, endTime, URI>>)]
        /\ UNCHANGED <<now, owner, gatewayOperator, bids, saltRegistry,
                       indexToBidder, lotParticipants, closeLog, bidLog,
                       operatorEvent,
                       fheVars>>

\* ------------------------------------------------------------- submitBid
\* (variant: a bid at endTime itself is refused)
InWindowBeforeEnd(lot) == ~(now < lot.startTime \/ now >= lot.endTime)

\* block.timestamp within [startTime, endTime], both ends included
InWindow(lot) == ~(now < lot.startTime \/ now > lot.endTime)

\* (variant: the salt registry is not consulted)
SaltNeverUsed(lotId, salt) == FALSE

\* (variant: a salt used in any lot counts as used)
SaltUsedAnyLot(lotId, salt) == \E l \in LotArgs : salt \in saltRegistry[l]

SaltUsed(lotId, salt) == salt \in saltRegistry[lotId]

\* (variant: an envelope is recognised by its index instead of its salt)
HasEnvelopeByIndex(lotId, who) == bids[lotId][who].index # 0

HasEnvelope(lotId, who) == bids[lotId][who].saltHash # 0

\* (variant: a closed lot still takes bids inside its window)
SubmitBidErrorNoClosedCheck(caller, lotId, proofOk, salt) ==
    IF lots[lotId].curator = ZERO THEN "LotNotFound"
    ELSE IF salt = 0 THEN "EmptySalt"
    ELSE IF ~InWindow(lots[lotId]) THEN "OutsideBiddingWindow"
    ELSE IF SaltUsed(lotId, salt) THEN "SaltAlreadyUsed"
    ELSE IF HasEnvelope(lotId, caller) THEN "BidAlreadySubmitted"
    ELSE IF ~proofOk THEN "InvalidProof"
    ELSE "OK"

\* (variant: the empty salt is tested before the lot's existence)
SubmitBidErrorSaltFirst(caller, lotId, proofOk, salt) ==
    IF salt = 0 THEN "EmptySalt"
    ELSE IF lots[lotId].curator = ZERO THEN "LotNotFound"
    ELSE IF lots[lotId].closed THEN "AuctionClosed"
    ELSE IF ~InWindow(lots[lotId]) THEN "OutsideBiddingWindow"
    ELSE IF SaltUsed(lotId, salt) THEN "SaltAlreadyUsed"
    ELSE IF HasEnvelope(lotId, caller) THEN "BidAlreadySubmitted"
    ELSE IF ~proofOk THEN "InvalidProof"
    ELSE "OK"

\* (variant: the caller's envelope is tested before the salt registry)
SubmitBidErrorEnvelopeFirst(caller, lotId, proofOk, salt) ==
    IF lots[lotId].curator = ZERO THEN "LotNotFound"
    ELSE IF salt = 0 THEN "EmptySalt"
    ELSE IF lots[lotId].closed THEN "AuctionClosed"
    ELSE IF ~InWindow(lots[lotId]) THEN "OutsideBiddingWindow"
    ELSE IF HasEnvelope(lotId, caller) THEN "BidAlreadySubmitted"
    ELSE IF SaltUsed(lotId, salt) THEN "SaltAlreadyUsed"
    ELSE IF ~proofOk THEN "InvalidProof"
    ELSE "OK"

SubmitBidError(caller, lotId, proofOk, salt) ==
    IF lots[lotId].curator = ZERO THEN "LotNotFound"
    ELSE IF salt = 0 THEN "EmptySalt"
    ELSE IF lots[lotId].closed THEN "AuctionClosed"
    ELSE IF ~InWindow(lots[lotId]) THEN "OutsideBiddingWindow"
    ELSE IF SaltUsed(lotId, salt) THEN "SaltAlreadyUsed"
    ELSE IF HasEnvelope(lotId, caller) THEN "BidAlreadySubmitted"
    ELSE IF ~proofOk THEN "InvalidProof"
    ELSE "OK"

\* (variant: a bid equal to the running maximum also counts as higher)
IsHigherOrEqual(bidClear, winClear) == bidClear >= winClear

\* cleartext of the encrypted comparison FHE.gt(bidAmount, encryptedWinningBid)
IsHigher(bidClear, winClear) == FHEgt(bidClear, winClear)

\* the lot's winning handles and their cleartexts after the bid at bidIndex
WinningBidHandle(lotId, bidIndex, bidAmount) ==
    IF bidIndex = 0 THEN bidAmount ELSE Sel64(lotId, bidIndex)

WinningIndexHandle(lotId, bidIndex) ==
    IF bidIndex = 0 THEN FHEasEuint32(bidIndex) ELSE Sel32(lotId, bidIndex)

WinningBidClear(lot, bidIndex, amount) ==
    IF bidIndex = 0 THEN amount
    ELSE FHEselect(IsHigher(amount, cipher[lot.encryptedWinningBid]),
                   amount, cipher[lot.encryptedWinningBid])

\* (variant: the winning index stays with the first bid)
WinningIndexClearKeepsFirst(lot, bidIndex, amount) ==
    IF bidIndex = 0 THEN bidIndex ELSE cipher[lot.encryptedWinningIndex]

WinningIndexClear(lot, bidIndex, amount) ==
    IF bidIndex = 0 THEN bidIndex
    ELSE FHEselect(IsHigher(amount, cipher[lot.encryptedWinningBid]),
                   bidIndex, cipher[lot.encryptedWinningIndex])

\* grants of one submitBid: the bid for contract, bidder and operator, the
\* lot's winning handles for contract, curator and operator
\* (variant: the lot's curator is granted every bid's handle as well)
SubmitBidGrantsCuratorReads(grants, bidAmount, bidder, winBid, winIdx, curator, op) ==
    Allow(AllowAll(AllowAll(AllowAll(grants, bidAmount, bidder, op), winBid, curator, op),
                   winIdx, curator, op),
          bidAmount, curator)

SubmitBidGrants(grants, bidAmount, bidder, winBid, winIdx, curator, op) ==
    AllowAll(AllowAll(AllowAll(grants, bidAmount, bidder, op), winBid, curator, op),
             winIdx, curator, op)

\* (variant: the first bid of a lot takes index 1)
NextBidIndexFromOne(lot) == lot.bidCount + 1

\* uint32 bidIndex = lot.bidCount
NextBidIndex(lot) == lot.bidCount

submitBid(caller, lotId, encryptedBid, clear, proofOk, salt) ==
    LET lot == lots[lotId]
        bidIndex == NextBidIndex(lot)
        bidAmount == encryptedBid
        amount == Cleartext(encryptedBid, clear)
        winBid == WinningBidHandle(lotId, bidIndex, bidAmount)
        winIdx == WinningIndexHandle(lotId, bidIndex)
        cipher1 == Store(Store(cipher, bidAmount, amount), FHEasEuint32(bidIndex), bidIndex)
        cipher2 == IF bidIndex = 0 THEN cipher1
                   ELSE Store(cipher1, Gt64(lotId, bidIndex),
                              IF IsHigher(amount, cipher[lot.encryptedWinningBid])
                              THEN 1 ELSE 0)
    IN  /\ SubmitBidError(caller, lotId, proofOk, salt) = "OK"
        /\ saltRegistry' = [saltRegistry EXCEPT ![lotId] = @ \cup {salt}]
        /\ lots' = [lots EXCEPT ![lotId].bidCount = bidIndex + 1,
                                ![lotId].encryptedWinningBid = winBid,
                                ![lotId].encryptedWinningIndex = winIdx]
        /\ bids' = [bids EXCEPT ![lotId][caller] =
                      [amount |-> bidAmount, saltHash |-> salt, submittedAt |-> now,
                       index |-> bidIndex, isSealed |-> FALSE]]
        /\ indexToBidder' = [indexToBidder EXCEPT ![lotId][bidIndex] = caller]
        /\ lotParticipants' = [lotParticipants EXCEPT ![lotId] = Append(@, caller)]
        /\ cipher' = Store(Store(cipher2, winBid, WinningBidClear(lot, bidIndex, amount)),
                           winIdx, WinningIndexClear(lot, bidIndex, amount))
        /\ acl' = SubmitBidGrants(acl, bidAmount, caller, winBid, winIdx,
                                  lot.curator, gatewayOperator)
        /\ lotLog' = [lotLog EXCEPT ![lotId] =
                        Append(@, <<"BidSubmitted", lotId, caller, bidIndex, salt>>)]
        /\ bidLog' = [bidLog EXCEPT ![lotId] =
                        Append(@, [bidder |-> caller, bidIndex |-> bidIndex,
                                   saltHash |-> salt])]
        /\ UNCHANGED <<now, nextLotId, owner, gatewayOperator, lotIds, closeLog,
                       operatorEvent,
                       fheVars>>

\* -------------------------------------------------------------- closeLot
\* (variant: the owner may close any lot)
CloseLotErrorOwnerOverride(caller, lotId) ==
    IF lots[lotId].curator = ZERO THEN "LotNotFound"
    ELSE IF lots[lotId].curator # caller /\ caller # owner THEN "NotCurator"
    ELSE IF lots[lotId].closed THEN "AuctionClosed"
    ELSE IF gatewayOperator = ZERO THEN "GatewayNotConfigured"
    ELSE IF lots[lotId].revealRequested THEN "RevealAlreadyRequested"
    ELSE "OK"

\* (variant: the closed and revealRequested checks are missing)
CloseLotErrorNoClosedCheck(caller, lotId) ==
    IF lots[lotId].curator = ZERO THEN "LotNotFound"
    ELSE IF lots[lotId].curator # caller THEN "NotCurator"
    ELSE IF gatewayOperator = ZERO THEN "GatewayNotConfigured"
    ELSE "OK"

\* (variant: a lot may be closed while no operator is configured)
CloseLotErrorNoGatewayCheck(caller, lotId) ==
    IF lots[lotId].curator = ZERO THEN "LotNotFound"
    ELSE IF lots[lotId].curator # caller THEN "NotCurator"
    ELSE IF lots[lotId].closed THEN "AuctionClosed"
    ELSE IF lots[lotId].revealRequested THEN "RevealAlreadyRequested"
    ELSE "OK"

\* (variant: a lot can only be closed once its endTime has passed)
CloseLotErrorAfterEnd(caller, lotId) ==
    IF lots[lotId].curator = ZERO THEN "LotNotFound"
    ELSE IF lots[lotId].curator # caller THEN "NotCurator"
    ELSE IF lots[lotId].closed THEN "AuctionClosed"
    ELSE IF now <= lots[lotId].endTime THEN "OutsideBiddingWindow"
    ELSE IF gatewayOperator = ZERO THEN "GatewayNotConfigured"
    ELSE IF lots[lotId].revealRequested THEN "RevealAlreadyRequested"
    ELSE "OK"

CloseLotError(caller, lotId) ==
    IF lots[lotId].curator = ZERO THEN "LotNotFound"
    ELSE IF lots[lotId].curator # caller THEN "NotCurator"
    ELSE IF lots[lotId].closed THEN "AuctionClosed"
    ELSE IF gatewayOperator = ZERO THEN "GatewayNotConfigured"
    ELSE IF lots[lotId].revealRequested THEN "RevealAlreadyRequested"
    ELSE "OK"

\* the sealing pass over the participant list
\* (variant: the sealing pass stops after the first participant)
SealFirst(envelopes, participants) ==
    [a \in DOMAIN envelopes |->
        IF Len(participants) > 0 /\ participants[1] = a
        THEN [envelopes[a] EXCEPT !.isSealed = TRUE]
        ELSE envelopes[a]]

SealAll(envelopes, participants) ==
    [a \in DOMAIN envelopes |->
        IF \E i \in 1..Len(participants) : participants[i] = a
        THEN [envelopes[a] EXCEPT !.isSealed = TRUE]
        ELSE envelopes[a]]

\* (variant: the reveal is requested before the lot is reported closed)
CloseEventsRequestFirst(lotId, caller, operator) ==
    <<<<"RevealRequested", lotId, operator>>, <<"LotClosed", lotId, caller>>>>

\* emit LotClosed(lotId, msg.sender); emit RevealRequested(lotId, gatewayOperator)
CloseEvents(lotId, caller, operator) ==
    <<<<"LotClosed", lotId, caller>>, <<"RevealRequested", lotId, operator>>>>

\* (variant: the lot is closed without the reveal being requested)
closeLotNoRequest(caller, lotId) ==
        /\ CloseLotError(caller, lotId) = "OK"
        /\ lots' = [lots EXCEPT ![lotId].closed = TRUE]
        /\ bids' = [bids EXCEPT ![lotId] = SealAll(@, lotParticipants[lotId])]
        /\ closeLog' = [closeLog EXCEPT ![lotId] =
                          Append(@, [curator |-> caller, operator |-> gatewayOperator])]
        /\ lotLog' = [lotLog EXCEPT ![lotId] =
                        @ \o CloseEvents(lotId, caller, gatewayOperator)]
        /\ UNCHANGED <<now, nextLotId, owner, gatewayOperator, saltRegistry,
                       indexToBidder, lotParticipants, lotIds, cipher, acl, bidLog,
                       operatorEvent,
                       fheVars>>

closeLot(caller, lotId) ==
        /\ CloseLotError(caller, lotId) = "OK"
        /\ lots' = [lots EXCEPT ![lotId].closed = TRUE,
                                ![lotId].revealRequested = TRUE]
        /\ bids' = [bids EXCEPT ![lotId] = SealAll(@, lotParticipants[lotId])]
        /\ closeLog' = [closeLog EXCEPT ![lotId] =
                          Append(@, [curator |-> caller, operator |-> gatewayOperator])]
        /\ lotLog' = [lotLog EXCEPT ![lotId] =
                        @ \o CloseEvents(lotId, caller, gatewayOperator)]
        /\ UNCHANGED <<now, nextLotId, owner, gatewayOperator, saltRegistry,
                       indexToBidder, lotParticipants, lotIds, cipher, acl, bidLog,
                       operatorEvent,
                       fheVars>>

\* ---------------------------------------------------------- settleReveal
IsGateway(caller) == caller = gatewayOperator

\* (variant: the empty identity recorded at an unused index is accepted)
BidderMatchesNoEmptyCheck(lotId, winningIndex, bidder) ==
    ~(indexToBidder[lotId][winningIndex] # bidder)

\* the cross-check of the asserted bidder against the index->bidder map
BidderMatches(lotId, winningIndex, bidder) ==
    ~(indexToBidder[lotId][winningIndex] # bidder
      \/ indexToBidder[lotId][winningIndex] = ZERO)

\* (variant: the closed and revealRequested checks are missing)
SettleRevealErrorNoClosedCheck(caller, lotId, winningIndex, bidder) ==
    IF lots[lotId].curator = ZERO THEN "LotNotFound"
    ELSE IF ~IsGateway(caller) THEN "UnauthorizedGateway"
    ELSE IF lots[lotId].settled THEN "AlreadySettled"
    ELSE IF ~BidderMatches(lotId, winningIndex, bidder) THEN "UnauthorizedGateway"
    ELSE "OK"

\* (variant: the caller is matched against the operator named in the
\* lot's RevealRequested event)
SettleRevealErrorRequestedOperator(caller, lotId, winningIndex, bidder) ==
    IF lots[lotId].curator = ZERO THEN "LotNotFound"
    ELSE IF Len(closeLog[lotId]) > 0 /\ caller # closeLog[lotId][1].operator
         THEN "UnauthorizedGateway"
    ELSE IF Len(closeLog[lotId]) = 0 /\ ~IsGateway(caller) THEN "UnauthorizedGateway"
    ELSE IF ~lots[lotId].closed THEN "AuctionNotClosed"
    ELSE IF lots[lotId].settled THEN "AlreadySettled"
    ELSE IF ~lots[lotId].revealRequested THEN "RevealNotRequested"
    ELSE IF ~BidderMatches(lotId, winningIndex, bidder) THEN "UnauthorizedGateway"
    ELSE "OK"

\* (variant: a settled lot may be settled again)
SettleRevealErrorNoSettledCheck(caller, lotId, winningIndex, bidder) ==
    IF lots[lotId].curator = ZERO THEN "LotNotFound"
    ELSE IF ~IsGateway(caller) THEN "UnauthorizedGateway"
    ELSE IF ~lots[lotId].closed THEN "AuctionNotClosed"
    ELSE IF ~lots[lotId].revealRequested THEN "RevealNotRequested"
    ELSE IF ~BidderMatches(lotId, winningIndex, bidder) THEN "UnauthorizedGateway"
    ELSE "OK"

\* (variant: the lot's flags are tested before the caller)
SettleRevealErrorFlagsFirst(caller, lotId, winningIndex, bidder) ==
    IF lots[lotId].curator = ZERO THEN "LotNotFound"
    ELSE IF ~lots[lotId].closed THEN "AuctionNotClosed"
    ELSE IF lots[lotId].settled THEN "AlreadySettled"
    ELSE IF ~lots[lotId].revealRequested THEN "RevealNotRequested"
    ELSE IF ~IsGateway(caller) THEN "UnauthorizedGateway"
    ELSE IF ~BidderMatches(lotId, winningIndex, bidder) THEN "UnauthorizedGateway"
    ELSE "OK"

SettleRevealError(caller, lotId, winningIndex, bidder) ==
    IF lots[lotId].curator = ZERO THEN "LotNotFound"
    ELSE IF ~IsGateway(caller) THEN "UnauthorizedGateway"
    ELSE IF ~lots[lotId].closed THEN "AuctionNotClosed"
    ELSE IF lots[lotId].settled THEN "AlreadySettled"
    ELSE IF ~lots[lotId].revealRequested THEN "RevealNotRequested"
    ELSE IF ~BidderMatches(lotId, winningIndex, bidder) THEN "UnauthorizedGateway"
    ELSE "OK"

\* (variant: the winner is recorded without the settled flag)
settleRevealNoFlag(caller, lotId, winningIndex, clearWinningBid, bidder) ==
    LET recordedBidder == indexToBidder[lotId][winningIndex]
    IN  /\ SettleRevealError(caller, lotId, winningIndex, bidder) = "OK"
        /\ lotLog' = [lotLog EXCEPT ![lotId] =
                        Append(@, <<"RevealSettled", lotId, recordedBidder,
                                    clearWinningBid>>)]
        /\ lots' = [lots EXCEPT ![lotId].winner = recordedBidder,
                                ![lotId].revealedAmount = clearWinningBid]
        /\ UNCHANGED <<now, nextLotId, owner, gatewayOperator, bids, saltRegistry,
                       indexToBidder, lotParticipants, lotIds, cipher, acl, closeLog,
                       bidLog, operatorEvent,
                       fheVars>>

\* (variant: the settled lot passes to its winner)
settleRevealHandsOver(caller, lotId, winningIndex, clearWinningBid, bidder) ==
    LET recordedBidder == indexToBidder[lotId][winningIndex]
    IN  /\ SettleRevealError(caller, lotId, winningIndex, bidder) = "OK"
        /\ lotLog' = [lotLog EXCEPT ![lotId] =
                        Append(@, <<"RevealSettled", lotId, recordedBidder,
                                    clearWinningBid>>)]
        /\ lots' = [lots EXCEPT ![lotId].winner = recordedBidder,
                                ![lotId].revealedAmount = clearWinningBid,
                                ![lotId].settled = TRUE,
                                ![lotId].curator = recordedBidder]
        /\ UNCHANGED <<now, nextLotId, owner, gatewayOperator, bids, saltRegistry,
                       indexToBidder, lotParticipants, lotIds, cipher, acl, closeLog,
                       bidLog, operatorEvent,
                       fheVars>>

settleReveal(caller, lotId, winningIndex, clearWinningBid, bidder) ==
    LET recordedBidder == indexToBidder[lotId][winningIndex]
    IN  /\ SettleRevealError(caller, lotId, winningIndex, bidder) = "OK"
        /\ lotLog' = [lotLog EXCEPT ![lotId] =
                        Append(@, <<"RevealSettled", lotId, recordedBidder,
                                    clearWinningBid>>)]
        /\ lots' = [lots EXCEPT ![lotId].winner = recordedBidder,
                                ![lotId].revealedAmount = clearWinningBid,
                                ![lotId].settled = TRUE]
        /\ UNCHANGED <<now, nextLotId, owner, gatewayOperator, bids, saltRegistry,
                       indexToBidder, lotParticipants, lotIds, cipher, acl, closeLog,
                       bidLog, operatorEvent,
                       fheVars>>

\* ------------------------------------------------- updateGatewayOperator
\* (variant: the configured gateway operator may also replace itself)
UpdateGatewayOperatorErrorOperatorToo(caller) ==
    IF caller # owner /\ caller # gatewayOperator THEN "NotOwner" ELSE "OK"

UpdateGatewayOperatorError(caller) ==
    IF caller # owner THEN "NotOwner" ELSE "OK"

\* the three lot-level handles of one lot granted to the new operator
LotGrants(grants, lot, newOperator) ==
    IF lot.curator = ZERO \/ newOperator = ZERO THEN grants
    ELSE Allow(Allow(Allow(grants, lot.encryptedReserve, newOperator),
                     lot.encryptedWinningBid, newOperator),
               lot.encryptedWinningIndex, newOperator)

\* (variant: the pass stops after the most recent lot)
RegrantLastLot(grants, n, newOperator) ==
    IF n = 0 THEN grants
    ELSE LotGrants(grants, lots[lotIds[n]], newOperator)

\* the pass over _lotIds[0 .. n-1]
RECURSIVE RegrantLots(_, _, _)
RegrantLots(grants, n, newOperator) ==
    IF n = 0 THEN grants
    ELSE LotGrants(RegrantLots(grants, n - 1, newOperator), lots[lotIds[n]], newOperator)

\* (variant: the empty identity is ignored and the operator is kept)
updateGatewayOperatorKeepsOnEmpty(caller, newOperator) ==
        /\ UpdateGatewayOperatorError(caller) = "OK"
        /\ gatewayOperator' = IF newOperator = ZERO THEN gatewayOperator ELSE newOperator
        /\ operatorEvent' = <<<<"GatewayOperatorUpdated", newOperator>>>>
        /\ acl' = RegrantLots(acl, Len(lotIds), newOperator)
        /\ UNCHANGED <<now, nextLotId, owner, lots, bids, saltRegistry,
                       indexToBidder, lotParticipants, lotIds, cipher, closeLog,
                       bidLog, lotLog,
                       fheVars>>

\* (variant: the replaced operator loses its authorizations)
updateGatewayOperatorRevokes(caller, newOperator) ==
        /\ UpdateGatewayOperatorError(caller) = "OK"
        /\ gatewayOperator' = newOperator
        /\ operatorEvent' = <<<<"GatewayOperatorUpdated", newOperator>>>>
        /\ acl' = RegrantLots({g \in acl : g[2] # gatewayOperator \/ g[2] = newOperator},
                              Len(lotIds), newOperator)
        /\ UNCHANGED <<now, nextLotId, owner, lots, bids, saltRegistry,
                       indexToBidder, lotParticipants, lotIds, cipher, closeLog,
                       bidLog, lotLog,
                       fheVars>>

updateGatewayOperator(caller, newOperator) ==
        /\ UpdateGatewayOperatorError(caller) = "OK"
        /\ gatewayOperator' = newOperator
        /\ operatorEvent' = <<<<"GatewayOperatorUpdated", newOperator>>>>
        /\ acl' = RegrantLots(acl, Len(lotIds), newOperator)
        /\ UNCHANGED <<now, nextLotId, owner, lots, bids, saltRegistry,
                       indexToBidder, lotParticipants, lotIds, cipher, closeLog,
                       bidLog, lotLog,
                       fheVars>>

\* ------------------------------------------------------- reverting calls
\* (variant: a failed proof verification is caught and the call returns)
CallOutcomeProofCaught(err) ==
    IF err \in {"OK", "InvalidProof"} THEN "return" ELSE "revert"

\* how a call that meets err ends: every check of the contract fails with
\* a revert statement, and the contract does not catch the revert of
\* FHE.fromExternal, so the call it is made in reverts as well
CallOutcome(err) == IF err = "OK" THEN "return" ELSE "revert"

\* what a call leaves in a storage variable: what it wrote if it returns,
\* what was there before the call if it reverts
Committed(outcome, before, written) == IF outcome = "revert" THEN before ELSE written

\* _lots as written by createLot before FHE.fromExternal is reached
CreateLotHeader(caller, startTime, endTime) ==
    [lots EXCEPT ![nextLotId] =
        [lots[nextLotId] EXCEPT !.curator = caller,
                                !.startTime = startTime,
                                !.endTime = endTime,
                                !.metadataURI = URI]]

\* _saltRegistry as written by submitBid before FHE.fromExternal is reached
SaltMarked(lotId, salt) == [saltRegistry EXCEPT ![lotId] = @ \cup {salt}]

createLotReverts(caller, startTime, endTime, proofOk) ==
    LET err == CreateLotError(startTime, endTime, proofOk)
    IN  /\ err # "OK"
        /\ nextLotId' = IF err = "InvalidProof"
                        THEN Committed(CallOutcome(err), nextLotId, nextLotId + 1)
                        ELSE nextLotId
        /\ lots' = IF err = "InvalidProof"
                   THEN Committed(CallOutcome(err), lots,
                                  CreateLotHeader(caller, startTime, endTime))
                   ELSE lots
        /\ UNCHANGED <<now, owner, gatewayOperator, bids, saltRegistry, indexToBidder,
                       lotParticipants, lotIds, cipher, acl, closeLog, bidLog,
                       lotLog, operatorEvent,
                       fheVars>>

submitBidReverts(caller, lotId, proofOk, salt) ==
    LET err == SubmitBidError(caller, lotId, proofOk, salt)
    IN  /\ err # "OK"
        /\ saltRegistry' = IF err = "InvalidProof"
                           THEN Committed(CallOutcome(err), saltRegistry,
                                          SaltMarked(lotId, salt))
                           ELSE saltRegistry
        /\ UNCHANGED <<now, nextLotId, owner, gatewayOperator, lots, bids,
                       indexToBidder, lotParticipants, lotIds, cipher, acl, closeLog,
                       bidLog, lotLog, operatorEvent,
                       fheVars>>

closeLotReverts(caller, lotId) ==
    /\ CloseLotError(caller, lotId) # "OK"
    /\ UNCHANGED vars

settleRevealReverts(caller, lotId, winningIndex, bidder) ==
    /\ SettleRevealError(caller, lotId, winningIndex, bidder) # "OK"
    /\ UNCHANGED vars

updateGatewayOperatorReverts(caller) ==
    /\ UpdateGatewayOperatorError(caller) # "OK"
    /\ UNCHANGED vars

\* ----------------------------------------------------------------- views
getAllLotIds == lotIds

\* getLot: the lotExists modifier
GetLotError(lotId) ==
    IF lots[lotId].curator = ZERO THEN "LotNotFound" ELSE "OK"

\* FHE.toBytes32: the bytes32 behind a handle, zero for an unset one
ToBytes32(h) == IF h = NoHandle THEN 0 ELSE h

\* (variant: the configured gateway operator may read every envelope)
GetBidErrorGatewayReads(caller, lotId, bidder) ==
    IF lots[lotId].curator = ZERO THEN "LotNotFound"
    ELSE IF caller # bidder /\ caller # lots[lotId].curator /\ caller # owner
            /\ caller # gatewayOperator
         THEN "NotCurator"
    ELSE "OK"

GetBidError(caller, lotId, bidder) ==
    IF lots[lotId].curator = ZERO THEN "LotNotFound"
    ELSE IF caller # bidder /\ caller # lots[lotId].curator /\ caller # owner
         THEN "NotCurator"
    ELSE "OK"

\* the tuple returned by getBid
getBid(lotId, bidder) ==
    LET envelope == bids[lotId][bidder]
    IN  <<ToBytes32(envelope.amount), envelope.saltHash, envelope.submittedAt,
          envelope.index, envelope.isSealed>>

\* ------------------------------------------------- lib/fhe.ts: operations
\* The instance created by initialization r is identified with r, and so
\* is the promise of initialization r.  Code between two awaits runs
\* without interruption, except that setInitState calls the registered
\* listeners synchronously, without catching what they throw, and a
\* listener may call the exported functions.  Two calls of setInitState
\* are followed by code that depends on the listeners: the one in
\* ensureFheInstance (line 244, before initPromise is assigned) and the
\* one after the instance is installed (line 250, inside the try).  Such a
\* call is kept on the stack, with the listeners it iterates over, until
\* they have returned or thrown.  The other calls of setInitState (lines
\* 259 and 286) end their stretch of code and what a listener throws
\* there changes nothing in the module, so what a listener does there is
\* a step that follows.

\* the outcome of awaiting the promise of initialization r
Settled(r) ==
    IF runs[r].status = "resolved"
    THEN [status |-> "fulfilled", promise |-> r, value |-> r]
    ELSE IF runs[r].status = "rejected"
    THEN [status |-> "rejected", promise |-> r, value |-> NoInstance]
    ELSE [status |-> "pending", promise |-> r, value |-> NoInstance]

\* setInitState starts to notify the listeners: forEach iterates over the
\* array registered at that moment, also when a listener is removed or
\* added meanwhile
Frame(kind, c, r) ==
    [kind |-> kind, caller |-> c, run |-> r, listeners |-> stateChangeListeners]

Top == stack[Len(stack)]

\* the ensureFheInstance calls that are notifying their listeners
Notifying == {stack[i].caller : i \in {j \in 1..Len(stack) : stack[j].kind = "ensure"}}

\* an exported function can be called: no listener is running, or the call
\* is made by the listener that is running
Callable == IF stack = <<>> THEN TRUE ELSE "listener" \in Top.listeners

\* onFheStateChange: the listener is registered (and called with the
\* current state, which changes nothing in the module)
onFheStateChange(listener) ==
    /\ Callable
    /\ stateChangeListeners' = stateChangeListeners \cup {listener}
    /\ UNCHANGED <<fheInstance, initPromise, initState, runs, nextRun, calls, stack,
                   now, storage>>

\* the function returned by onFheStateChange: every copy of the listener
\* is removed
unsubscribe(listener) ==
    /\ Callable
    /\ listener \in stateChangeListeners
    /\ stateChangeListeners' = stateChangeListeners \ {listener}
    /\ UNCHANGED <<fheInstance, initPromise, initState, runs, nextRun, calls, stack,
                   now, storage>>

\* (variant: an initialization in progress is not looked for)
ensureFheInstanceNoPromiseCheck(c) ==
    /\ Callable
    /\ calls[c].status # "pending"
    /\ c \notin Notifying
    /\ IF fheInstance # NoInstance
       THEN /\ calls' = [calls EXCEPT ![c] =
                           [status |-> "fulfilled", promise |-> NoPromise,
                            value |-> fheInstance]]
            /\ UNCHANGED <<initState, stack>>
       ELSE /\ nextRun + Cardinality(Notifying) <= MaxRuns
            /\ initState' = "initializing"
            /\ stack' = Append(stack, Frame("ensure", c, 0))
            /\ UNCHANGED calls
    /\ UNCHANGED <<fheInstance, initPromise, runs, nextRun, stateChangeListeners,
                   now, storage>>

\* ensureFheInstance called by c, up to the notification of the listeners:
\* the cached instance, else the promise in progress, else the state is
\* set to initializing and the listeners are called, initPromise being
\* still null
ensureFheInstance(c) ==
    /\ Callable
    /\ calls[c].status # "pending"
    /\ c \notin Notifying
    /\ IF fheInstance # NoInstance
       THEN /\ calls' = [calls EXCEPT ![c] =
                           [status |-> "fulfilled", promise |-> NoPromise,
                            value |-> fheInstance]]
            /\ UNCHANGED <<initState, stack>>
       ELSE IF initPromise # NoPromise
       THEN /\ calls' = [calls EXCEPT ![c] = Settled(initPromise)]
            /\ UNCHANGED <<initState, stack>>
       ELSE /\ nextRun + Cardinality(Notifying) <= MaxRuns
            /\ initState' = "initializing"
            /\ stack' = Append(stack, Frame("ensure", c, 0))
            /\ UNCHANGED calls
    /\ UNCHANGED <<fheInstance, initPromise, runs, nextRun, stateChangeListeners,
                   now, storage>>

\* ensureFheInstance called by c, after its listeners have returned: the
\* initialization is started at attempt 1 and its promise is assigned to
\* initPromise, whatever initPromise holds, and returned
startInitialization(c) ==
    /\ stack # <<>>
    /\ Top.kind = "ensure" /\ Top.caller = c
    /\ stack' = SubSeq(stack, 1, Len(stack) - 1)
    /\ runs' = [runs EXCEPT ![nextRun] =
                  [status |-> "running", attempt |-> 1, stale |-> FALSE]]
    /\ initPromise' = nextRun
    /\ nextRun' = nextRun + 1
    /\ calls' = [calls EXCEPT ![c] =
                   [status |-> "pending", promise |-> nextRun,
                    value |-> NoInstance]]
    /\ UNCHANGED <<fheInstance, initState, stateChangeListeners, now, storage>>

\* ensureFheInstance called by c, a listener throwing in its notification:
\* the call is rejected before initPromise is assigned and no
\* initialization is started
ensureFheInstanceThrows(c) ==
    /\ stack # <<>>
    /\ Top.kind = "ensure" /\ Top.caller = c
    /\ "listener" \in Top.listeners
    /\ stack' = SubSeq(stack, 1, Len(stack) - 1)
    /\ calls' = [calls EXCEPT ![c] =
                   [status |-> "rejected", promise |-> NoPromise,
                    value |-> NoInstance]]
    /\ UNCHANGED <<fheInstance, initPromise, initState, runs, nextRun,
                   stateChangeListeners, now, storage>>

\* the callers awaiting the promise of initialization r learn its outcome
Notify(r, status, value) ==
    [c \in CallerIds |->
        IF calls[c].status = "pending" /\ calls[c].promise = r
        THEN [status |-> status, promise |-> r, value |-> value]
        ELSE calls[c]]

\* the current attempt of initialization r succeeds: initializeFheWithRetry
\* returns the instance, the continuation installs it and notifies the
\* listeners; when they can only return, the promise is resolved
attemptSucceeds(r) ==
    /\ stack = <<>>
    /\ runs[r].status = "running"
    /\ fheInstance' = r
    /\ initState' = "ready"
    /\ IF "listener" \in stateChangeListeners
       THEN /\ stack' = <<Frame("ready", "none", r)>>
            /\ UNCHANGED <<runs, calls>>
       ELSE /\ runs' = [runs EXCEPT ![r].status = "resolved"]
            /\ calls' = Notify(r, "fulfilled", r)
            /\ UNCHANGED stack
    /\ UNCHANGED <<initPromise, nextRun, stateChangeListeners, now, storage>>

\* the listeners notified of ready by initialization r have returned: its
\* promise is resolved with its instance
initializationResolves(r) ==
    /\ stack # <<>>
    /\ Top.kind = "ready" /\ Top.run = r
    /\ stack' = SubSeq(stack, 1, Len(stack) - 1)
    /\ runs' = [runs EXCEPT ![r].status = "resolved"]
    /\ calls' = Notify(r, "fulfilled", r)
    /\ UNCHANGED <<fheInstance, initPromise, initState, nextRun,
                   stateChangeListeners, now, storage>>

\* a listener notified of ready by initialization r throws: the catch
\* clears initPromise and sets the state error, the instance installed
\* stays, and the promise is rejected
initializationCatches(r) ==
    /\ stack # <<>>
    /\ Top.kind = "ready" /\ Top.run = r
    /\ "listener" \in Top.listeners
    /\ stack' = SubSeq(stack, 1, Len(stack) - 1)
    /\ initPromise' = NoPromise
    /\ initState' = "error"
    /\ runs' = [runs EXCEPT ![r].status = "rejected"]
    /\ calls' = Notify(r, "rejected", NoInstance)
    /\ UNCHANGED <<fheInstance, nextRun, stateChangeListeners, now, storage>>

\* (variant: the promise of a failed initialization is kept)
attemptFailsKeepsPromise(r) ==
    /\ stack = <<>>
    /\ runs[r].status = "running"
    /\ IF runs[r].attempt < MAX_RETRY_ATTEMPTS
       THEN /\ runs' = [runs EXCEPT ![r].attempt = @ + 1]
            /\ UNCHANGED <<fheInstance, initPromise, initState, calls>>
       ELSE /\ runs' = [runs EXCEPT ![r].status = "rejected"]
            /\ initState' = "error"
            /\ calls' = Notify(r, "rejected", NoInstance)
            /\ UNCHANGED <<fheInstance, initPromise>>
    /\ UNCHANGED <<nextRun, stateChangeListeners, stack, now, storage>>

\* the current attempt of initialization r fails: it is retried while
\* attempt < MAX_RETRY_ATTEMPTS, else the initialization is rejected
attemptFails(r) ==
    /\ stack = <<>>
    /\ runs[r].status = "running"
    /\ IF runs[r].attempt < MAX_RETRY_ATTEMPTS
       THEN /\ runs' = [runs EXCEPT ![r].attempt = @ + 1]
            /\ UNCHANGED <<fheInstance, initPromise, initState, calls>>
       ELSE /\ runs' = [runs EXCEPT ![r].status = "rejected"]
            /\ initPromise' = NoPromise
            /\ initState' = "error"
            /\ calls' = Notify(r, "rejected", NoInstance)
            /\ UNCHANGED fheInstance
    /\ UNCHANGED <<nextRun, stateChangeListeners, stack, now, storage>>

\* resetFheInstance; the initializations in progress go on and are marked
\* as started before a reset
resetFheInstance ==
    /\ Callable
    /\ fheInstance' = NoInstance
    /\ initPromise' = NoPromise
    /\ initState' = "idle"
    /\ runs' = [r \in RunIds |->
                  IF runs[r].status = "running"
                  THEN [runs[r] EXCEPT !.stale = TRUE] ELSE runs[r]]
    /\ UNCHANGED <<nextRun, calls, stateChangeListeners, stack, now, storage>>

getFheInstance == fheInstance
getFheState == initState

\* ------------------------------------------------------------------ time
Tick ==
    /\ now < MaxTime
    /\ now' = now + 1
    /\ UNCHANGED <<storage, fheVars>>

\* ------------------------------------------------- Spec: the lot registry
\* Up to MaxLots lots sharing MaxBids bids; the operator is set and cleared.
TotalBids == LET RECURSIVE Sum(_)
                 Sum(n) == IF n = 0 THEN 0 ELSE lots[n].bidCount + Sum(n - 1)
             IN  Sum(MaxLots)

CreateLotAction ==
    /\ nextLotId <= MaxLots
    /\ \E caller \in CreateCallers, s \in StartArgs, e \in EndArgs, p \in BOOLEAN :
          createLot(caller, s, e, ExternalReserve(nextLotId), p)

SubmitBidAction ==
    /\ TotalBids < MaxBids
    /\ \E caller \in BidCallers, lotId \in LotArgs, amount \in RegistryAmounts,
          p \in BOOLEAN, salt \in RegistrySalts :
          submitBid(caller, lotId, ExternalBid(lotId, lots[lotId].bidCount), amount, p, salt)

CloseLotAction ==
    \E caller \in Addr, lotId \in LotArgs : closeLot(caller, lotId)

SettleRevealAction ==
    \E caller \in Addr, lotId \in LotArgs, winningIndex \in IndexArgs,
       clearWinningBid \in RegistryAmounts, bidder \in BidderArgs :
          settleReveal(caller, lotId, winningIndex, clearWinningBid, bidder)

UpdateGatewayOperatorAction ==
    \E caller \in Addr, newOperator \in RegistryOperators :
       updateGatewayOperator(caller, newOperator)

Next ==
    \/ CreateLotAction
    \/ SubmitBidAction
    \/ CloseLotAction
    \/ SettleRevealAction
    \/ UpdateGatewayOperatorAction
    \/ Tick

Spec == Init /\ [][Next]_vars

\* --------------------------------------------- SpecBook: one lot in depth
\* A single lot whose bid book takes every bidder of BookCallers, any
\* amount and any salt; the operator is configured once.
BookCreateLot ==
    /\ nextLotId = 1
    /\ \E caller \in CreateCallers, s \in StartArgs, e \in EndArgs, p \in BOOLEAN :
          createLot(caller, s, e, ExternalReserve(nextLotId), p)

BookSubmitBid ==
    \E caller \in BookCallers, lotId \in LotArgs, amount \in Amounts,
       p \in BOOLEAN, salt \in SaltArgs :
          submitBid(caller, lotId, ExternalBid(lotId, lots[lotId].bidCount), amount, p, salt)

BookSettleReveal ==
    \E caller \in Addr, lotId \in LotArgs, winningIndex \in IndexArgs,
       clearWinningBid \in Amounts, bidder \in BidderArgs :
          settleReveal(caller, lotId, winningIndex, clearWinningBid, bidder)

BookUpdateGatewayOperator ==
    \E caller \in Addr : updateGatewayOperator(caller, "gw1")

NextBook ==
    \/ BookCreateLot
    \/ BookSubmitBid
    \/ CloseLotAction
    \/ BookSettleReveal
    \/ BookUpdateGatewayOperator
    \/ Tick

SpecBook == Init /\ [][NextBook]_vars

\* ------------------------------------- SpecGateway: operator rotation
\* A single lot with a small bid book while the owner rotates the gateway
\* operator freely among OperatorArgs.
RotateGatewayOperator ==
    \E caller \in Addr, newOperator \in OperatorArgs :
       updateGatewayOperator(caller, newOperator)

NextGateway ==
    \/ BookCreateLot
    \/ SubmitBidAction
    \/ CloseLotAction
    \/ SettleRevealAction
    \/ RotateGatewayOperator
    \/ Tick

SpecGateway == Init /\ [][NextGateway]_vars


\* ------------------------------------------- SpecLive: the fair oracle
\* The single lot of SpecGateway under free operator rotation, with the
\* oracle's part of the reveal handshake weakly fair: whenever the
\* configured operator's settleReveal naming a recorded bid stays
\* possible, the operator eventually makes that call.
OperatorSettles ==
    /\ gatewayOperator # ZERO
    /\ \E lotId \in LotArgs, winningIndex \in IndexArgs,
          clearWinningBid \in RegistryAmounts :
          /\ indexToBidder[lotId][winningIndex] # ZERO
          /\ settleReveal(gatewayOperator, lotId, winningIndex, clearWinningBid,
                          indexToBidder[lotId][winningIndex])

SpecLive == Init /\ [][NextGateway]_vars /\ WF_vars(OperatorSettles)
\* ------------------------------------------- SpecWindow: bidding windows
\* Lots created with every window over TimeArgs as time advances, each
\* taking the bid of a single bidder.
WindowCreateLot ==
    /\ nextLotId <= MaxLots
    /\ \E caller \in CreateCallers, s \in TimeArgs, e \in TimeArgs, p \in BOOLEAN :
          createLot(caller, s, e, ExternalReserve(nextLotId), p)

WindowSubmitBid ==
    \E lotId \in LotArgs, p \in BOOLEAN :
       submitBid("A", lotId, ExternalBid(lotId, lots[lotId].bidCount), 2, p, 1)

NextWindow ==
    \/ WindowCreateLot
    \/ WindowSubmitBid
    \/ Tick

SpecWindow == Init /\ [][NextWindow]_vars

\* -------------------------------------------- SpecRevert: failing calls
\* A single lot with a small bid book and the operator configured once,
\* where every refused call is a step of its own.
RevertCallers == {"owner", "cur", "A", "gw1"}      \* callers of the refused calls
BidIndexArgs == {0, 1}                            \* indices named by refused calls

NextRevert ==
    \/ BookCreateLot
    \/ SubmitBidAction
    \/ CloseLotAction
    \/ SettleRevealAction
    \/ BookUpdateGatewayOperator
    \/ Tick
    \/ /\ nextLotId <= MaxLots
       /\ \E caller \in CreateCallers, s \in TimeArgs, e \in TimeArgs, p \in BOOLEAN :
             createLotReverts(caller, s, e, p)
    \/ \E caller \in BidCallers, lotId \in LotArgs, p \in BOOLEAN, salt \in RegistrySalts :
          submitBidReverts(caller, lotId, p, salt)
    \/ \E caller \in RevertCallers, lotId \in LotArgs : closeLotReverts(caller, lotId)
    \/ \E caller \in RevertCallers, lotId \in LotArgs, winningIndex \in BidIndexArgs,
          bidder \in BidCallers :
             settleRevealReverts(caller, lotId, winningIndex, bidder)
    \/ \E caller \in RevertCallers : updateGatewayOperatorReverts(caller)

SpecRevert == Init /\ [][NextRevert]_vars


\* ------------------------------------- SpecScenario: the end-to-end run
\* One lot with the window, the instants and the bid values of the
\* end-to-end test, times counted from the deployment.
ScenarioStart == 60
ScenarioEnd == 3660
ScenarioTimes == {ScenarioStart, 100, ScenarioEnd, ScenarioEnd + 1}
ScenarioAmounts == {2000, 3000}
ScenarioSalts == {1, 2}

ScenarioCreateLot ==
    /\ nextLotId = 1
    /\ \E p \in BOOLEAN : createLot("cur", ScenarioStart, ScenarioEnd, ExternalReserve(nextLotId), p)

ScenarioSubmitBid ==
    \E caller \in BidCallers, lotId \in LotArgs, amount \in ScenarioAmounts,
       p \in BOOLEAN, salt \in ScenarioSalts :
          submitBid(caller, lotId, ExternalBid(lotId, lots[lotId].bidCount), amount, p, salt)

ScenarioSettleReveal ==
    \E caller \in Addr, lotId \in LotArgs, winningIndex \in BidIndexArgs,
       clearWinningBid \in ScenarioAmounts, bidder \in BidCallers :
          settleReveal(caller, lotId, winningIndex, clearWinningBid, bidder)

\* the block timestamp moves on to a later instant of the scenario
ScenarioAdvance ==
    /\ \E t \in ScenarioTimes : t > now /\ now' = t
    /\ UNCHANGED <<storage, fheVars>>

NextScenario ==
    \/ ScenarioCreateLot
    \/ ScenarioSubmitBid
    \/ CloseLotAction
    \/ ScenarioSettleReveal
    \/ BookUpdateGatewayOperator
    \/ ScenarioAdvance

SpecScenario == Init /\ [][NextScenario]_vars

\* ------------------------------------------- SpecLots: several lots
\* Up to MaxLots lots, each taking the bid of the same bidder with a salt
\* of LotsSalts, closed and settled independently.
LotsSalts == {1, 2}

LotsSubmitBid ==
    \E lotId \in LotArgs, p \in BOOLEAN, salt \in LotsSalts :
       submitBid("A", lotId, ExternalBid(lotId, lots[lotId].bidCount), 2, p, salt)

LotsSettleReveal ==
    \E caller \in RevertCallers, lotId \in LotArgs, winningIndex \in BidIndexArgs,
       bidder \in BidCallers :
          settleReveal(caller, lotId, winningIndex, 2, bidder)

NextLots ==
    \/ CreateLotAction
    \/ LotsSubmitBid
    \/ CloseLotAction
    \/ LotsSettleReveal
    \/ BookUpdateGatewayOperator
    \/ Tick

SpecLots == Init /\ [][NextLots]_vars

\* ------------------------------- SpecHandles: inputs passed again
\* Lots created by one curator, who also bids, and one more bidder, under
\* free operator rotation; a caller passes a new encrypted input or one
\* of the inputs they passed before.
NextHandles ==
    \/ /\ nextLotId <= MaxLots
       /\ \E s \in StartArgs, e \in EndArgs, p \in BOOLEAN,
             h \in {ExternalReserve(nextLotId)} \cup OwnInputs("cur") :
                createLot("cur", s, e, h, p)
    \/ /\ TotalBids < MaxBids
       /\ \E caller \in {"cur", "A"}, lotId \in LotArgs, p \in BOOLEAN :
             \E h \in {ExternalBid(lotId, lots[lotId].bidCount)} \cup OwnInputs(caller) :
                submitBid(caller, lotId, h, 2, p, IF caller = "cur" THEN 1 ELSE 2)
    \/ CloseLotAction
    \/ SettleRevealAction
    \/ RotateGatewayOperator
    \/ Tick

SpecHandles == Init /\ [][NextHandles]_vars

\* --------------------------------------- SpecFhe: SDK initialization
\* Callers of ensureFheInstance and the attempts of the initializations
\* they start, without resets.  The listeners are those the repository
\* registers, the setState of a component: no listener calls back or
\* throws.
EnsureAction == \E c \in CallerIds : ensureFheInstance(c)
StartAction == \E c \in CallerIds : startInitialization(c)
AttemptSucceedsAction == \E r \in RunIds : attemptSucceeds(r)
AttemptFailsAction == \E r \in RunIds : attemptFails(r)

NextFhe ==
    \/ EnsureAction
    \/ StartAction
    \/ AttemptSucceedsAction
    \/ AttemptFailsAction
    \/ onFheStateChange("setFheState")
    \/ unsubscribe("setFheState")

SpecFhe == Init /\ [][NextFhe]_vars

\* an attempt is bounded by withTimeout, so the attempt in progress of an
\* initialization eventually succeeds or fails; a call that has notified
\* its listeners goes on in the same stretch of code
AttemptEnds(r) == attemptSucceeds(r) \/ attemptFails(r)

SpecFheLive ==
    /\ Init /\ [][NextFhe]_vars
    /\ WF_vars(StartAction)
    /\ \A r \in RunIds : WF_vars(AttemptEnds(r))

\* ------------------ SpecFheReset: SDK with any listener and resets
\* onFheStateChange is exported, so any listener can be registered, also
\* one that calls the exported functions when it is notified, or throws;
\* and the callers may reset.
NextFheReset ==
    \/ EnsureAction
    \/ StartAction
    \/ AttemptSucceedsAction
    \/ AttemptFailsAction
    \/ \E l \in ListenerIds : onFheStateChange(l)
    \/ \E l \in ListenerIds : unsubscribe(l)
    \/ \E c \in CallerIds : ensureFheInstanceThrows(c)
    \/ \E r \in RunIds : initializationResolves(r)
    \/ \E r \in RunIds : initializationCatches(r)
    \/ resetFheInstance

SpecFheReset == Init /\ [][NextFheReset]_vars
\* ================================================================ claims
ExistingLots == {l \in LotArgs : lots[l].curator # ZERO}

BidIndices(l) == 0..(lots[l].bidCount - 1)

\* cleartext of the bid recorded at index i of lot l
BidClear(l, i) == cipher[bids[l][indexToBidder[l][i]].amount]

MaxBidValue(l) ==
    CHOOSE v \in {BidClear(l, i) : i \in BidIndices(l)} :
        \A i \in BidIndices(l) : BidClear(l, i) <= v

EarliestArgMax(l) ==
    CHOOSE i \in BidIndices(l) :
        /\ BidClear(l, i) = MaxBidValue(l)
        /\ \A j \in BidIndices(l) : j < i => BidClear(l, j) < MaxBidValue(l)

Phase(lot) == IF lot.settled THEN "Settled"
              ELSE IF lot.closed THEN "Closed" ELSE "Open"

\* C1: in every lot with at least one bid the cleartext of
\* encryptedWinningBid is the maximum of the cleartexts of the bids
\* submitted so far, the cleartext of encryptedWinningIndex is the smallest
\* index holding that maximum, and that index is below bidCount.
C1_RunningMaximum ==
    \A l \in ExistingLots :
        lots[l].bidCount > 0 =>
            /\ cipher[lots[l].encryptedWinningBid] = MaxBidValue(l)
            /\ cipher[lots[l].encryptedWinningIndex] = EarliestArgMax(l)
            /\ cipher[lots[l].encryptedWinningIndex] < lots[l].bidCount

\* bids 1, 2, 2 in this order: the tie at the maximum stays with index 1
C1_Witness ==
    \E l \in ExistingLots :
        /\ lots[l].bidCount = 3
        /\ BidClear(l, 0) = 1 /\ BidClear(l, 1) = 2 /\ BidClear(l, 2) = 2
        /\ cipher[lots[l].encryptedWinningIndex] = 1
        /\ cipher[lots[l].encryptedWinningBid] = 2

\* C2: on a closed, unsettled lot a settleReveal by the gateway operator
\* is accepted exactly when the index->bidder map records a non-empty
\* identity at winningIndex that equals the bidder argument, and is
\* refused with UnauthorizedGateway otherwise; the winner of a settled lot
\* is a bidder recorded in the lot's index->bidder map below bidCount and
\* holds an envelope in the lot.
C2_SettlementIdentity ==
    \A l \in ExistingLots :
        /\ (lots[l].closed /\ ~lots[l].settled /\ gatewayOperator # ZERO) =>
              \A i \in IndexArgs, b \in BidderArgs :
                 SettleRevealError(gatewayOperator, l, i, b) =
                    IF indexToBidder[l][i] # ZERO /\ indexToBidder[l][i] = b
                    THEN "OK" ELSE "UnauthorizedGateway"
        /\ lots[l].settled =>
              /\ lots[l].winner # ZERO
              /\ \E i \in BidIndices(l) : indexToBidder[l][i] = lots[l].winner
              /\ bids[l][lots[l].winner].saltHash # 0
        /\ ~lots[l].settled => lots[l].winner = ZERO

\* a lot with two bidders settled for the bidder recorded at index 1
C2_Witness ==
    \E l \in ExistingLots :
        /\ lots[l].settled
        /\ lots[l].bidCount >= 2
        /\ lots[l].winner = indexToBidder[l][1]
        /\ lots[l].winner # indexToBidder[l][0]

\* C3: no step resets closed, revealRequested or settled of any lot, and
\* the phase of a lot stays or moves Open -> Closed or Closed -> Settled.
C3_MonotonicPhases ==
    [][\A l \in LotArgs :
          /\ lots[l].closed => lots'[l].closed
          /\ lots[l].revealRequested => lots'[l].revealRequested
          /\ lots[l].settled => lots'[l].settled
          /\ \/ Phase(lots'[l]) = Phase(lots[l])
             \/ Phase(lots[l]) = "Open" /\ Phase(lots'[l]) = "Closed"
             \/ Phase(lots[l]) = "Closed" /\ Phase(lots'[l]) = "Settled"]_vars

\* one lot has gone through to Settled while another one is still Open
C3_Witness ==
    \E l, k \in ExistingLots :
        /\ Phase(lots[l]) = "Settled"
        /\ Phase(lots[k]) = "Open"
        /\ lots[k].bidCount > 0

\* C4: a settled lot is closed and has its reveal requested.
C4_SettledImpliesClosed ==
    \A l \in LotArgs :
        lots[l].settled => lots[l].closed /\ lots[l].revealRequested

\* a settled lot next to a closed, unsettled one
C4_Witness ==
    \E l, k \in ExistingLots :
        /\ lots[l].settled
        /\ lots[k].closed /\ ~lots[k].settled

Participants(l) == {lotParticipants[l][i] : i \in 1..Len(lotParticipants[l])}

Open(l) == ~lots[l].closed
InsideWindow(l) == lots[l].startTime <= now /\ now <= lots[l].endTime
FreshSalts(l) == {s \in SaltArgs : s # 0 /\ s \notin saltRegistry[l]}

\* C5: on an existing lot, a submitBid with a non-empty unused salt, a
\* caller without an envelope and a valid proof is accepted exactly when
\* the lot is not closed and startTime <= now <= endTime, and on an open
\* lot outside that range it fails with OutsideBiddingWindow; every stored
\* envelope was submitted inside the window, both ends included.
C5_WindowEnforcement ==
    \A l \in ExistingLots :
        /\ \A a \in Addr, s \in FreshSalts(l) :
              bids[l][a].saltHash = 0 =>
                 /\ SubmitBidError(a, l, TRUE, s) = "OK" <=> Open(l) /\ InsideWindow(l)
                 /\ (Open(l) /\ ~InsideWindow(l)) =>
                       SubmitBidError(a, l, TRUE, s) = "OutsideBiddingWindow"
        /\ \A a \in Participants(l) :
              /\ lots[l].startTime <= bids[l][a].submittedAt
              /\ bids[l][a].submittedAt <= lots[l].endTime

\* one bid accepted at startTime, one at endTime, and the open lot now
\* stands at endTime + 1 with a bidder and a salt left
C5_Witness ==
    \E l \in ExistingLots :
        /\ Open(l) /\ now = lots[l].endTime + 1
        /\ \E a, b \in Participants(l) :
              /\ bids[l][a].submittedAt = lots[l].startTime
              /\ bids[l][b].submittedAt = lots[l].endTime
        /\ FreshSalts(l) # {}
        /\ \E c \in BookCallers : bids[l][c].saltHash = 0

\* C6: while a lot is open and inside its window, a submitBid that names
\* the salt of a stored envelope fails with SaltAlreadyUsed for every
\* caller and every proof; the salts of the stored envelopes of a lot are
\* non-zero and pairwise different.
C6_SaltUniqueness ==
    \A l \in ExistingLots :
        /\ (Open(l) /\ InsideWindow(l)) =>
              \A a \in Participants(l), c \in Addr, p \in BOOLEAN :
                 SubmitBidError(c, l, p, bids[l][a].saltHash) = "SaltAlreadyUsed"
        /\ \A i, j \in 1..Len(lotParticipants[l]) :
              i # j => bids[l][lotParticipants[l][i]].saltHash
                         # bids[l][lotParticipants[l][j]].saltHash
        /\ \A a \in Participants(l) : bids[l][a].saltHash # 0

\* two envelopes stored, the lot open inside its window and a third bidder
\* still without an envelope
C6_Witness ==
    \E l \in ExistingLots :
        /\ lots[l].bidCount = 2 /\ Open(l) /\ InsideWindow(l)
        /\ \E c \in BookCallers : c \notin Participants(l)

\* C7: the participants of a lot are pairwise different bidders, one per
\* counted bid, each holding the envelope of its own index; while the lot
\* is open and inside its window a further submitBid by a participant with
\* an unused non-empty salt fails with BidAlreadySubmitted.
C7_OneBidPerBidder ==
    \A l \in ExistingLots :
        /\ Len(lotParticipants[l]) = lots[l].bidCount
        /\ \A i, j \in 1..Len(lotParticipants[l]) :
              i # j => lotParticipants[l][i] # lotParticipants[l][j]
        /\ \A i \in 1..Len(lotParticipants[l]) :
              /\ bids[l][lotParticipants[l][i]].index = i - 1
              /\ indexToBidder[l][i - 1] = lotParticipants[l][i]
        /\ \A a \in Addr : bids[l][a].saltHash # 0 <=> a \in Participants(l)
        /\ (Open(l) /\ InsideWindow(l)) =>
              \A a \in Participants(l), s \in FreshSalts(l), p \in BOOLEAN :
                 SubmitBidError(a, l, p, s) = "BidAlreadySubmitted"

\* the first bidder of an open lot, inside the window, with a salt left
C7_Witness ==
    \E l \in ExistingLots :
        /\ lots[l].bidCount = 1 /\ Open(l) /\ InsideWindow(l)
        /\ bids[l][indexToBidder[l][0]].index = 0
        /\ FreshSalts(l) # {}

\* C8: a settleReveal by anyone but the operator configured at the time
\* of the call fails with UnauthorizedGateway on every lot, and the
\* configured operator settles a closed, unsettled lot with a recorded
\* (index, bidder) pair whichever operator the lot's RevealRequested named.
C8_GatewayRotation ==
    \A l \in ExistingLots, i \in IndexArgs, b \in BidderArgs :
        /\ \A c \in Addr :
              c # gatewayOperator =>
                 SettleRevealError(c, l, i, b) = "UnauthorizedGateway"
        /\ (/\ gatewayOperator # ZERO
            /\ lots[l].closed /\ ~lots[l].settled
            /\ b # ZERO /\ indexToBidder[l][i] = b) =>
                 SettleRevealError(gatewayOperator, l, i, b) = "OK"

\* a lot closed under gw1 is still unsettled after the rotation to gw2
C8_Witness ==
    \E l \in ExistingLots :
        /\ lots[l].closed /\ ~lots[l].settled /\ lots[l].bidCount > 0
        /\ closeLog[l][1].operator = "gw1"
        /\ gatewayOperator = "gw2"

LotHandles(l) ==
    {lots[l].encryptedReserve, lots[l].encryptedWinningBid,
     lots[l].encryptedWinningIndex}

\* C9: the three ciphertext handles currently stored in a lot are granted
\* to the contract, to the lot's curator and, when an operator is
\* configured, to the configured gateway operator.
C9_LotHandlesAuthorized ==
    \A l \in ExistingLots :
        \A h \in LotHandles(l) :
            /\ IsAllowed(h, THIS)
            /\ IsAllowed(h, lots[l].curator)
            /\ gatewayOperator # ZERO => IsAllowed(h, gatewayOperator)

\* two lots, one with a select result as winning handle whose second bid
\* was submitted while no operator was configured
C9_Witness ==
    /\ gatewayOperator = "gw1"
    /\ Len(lotIds) = 2
    /\ \E l \in ExistingLots :
          /\ lots[l].bidCount = 2
          /\ lots[l].encryptedWinningBid = Sel64(l, 1)
          /\ ~IsAllowed(bids[l][indexToBidder[l][1]].amount, "gw1")

\* C10: closeLot on an existing lot by a caller other than the lot's
\* curator fails with NotCurator in every phase and with or without an
\* operator, and every LotClosed of a lot was emitted for its curator.
C10_CloseLotCuratorOnly ==
    \A l \in ExistingLots :
        /\ \A c \in Addr :
              c # lots[l].curator => CloseLotError(c, l) = "NotCurator"
        /\ \A i \in 1..Len(closeLog[l]) :
              closeLog[l][i].curator = lots[l].curator

\* a settled lot and an open lot while the operator is cleared again
C10_Witness ==
    \E l, k \in ExistingLots :
        /\ Phase(lots[l]) = "Settled"
        /\ Phase(lots[k]) = "Open"
        /\ gatewayOperator = ZERO
        /\ owner # lots[l].curator

\* C11: on a closed lot a closeLot by its curator fails with AuctionClosed,
\* whether the lot is settled or not and whichever operator is configured
\* or cleared, and a lot has emitted LotClosed once if it is closed and
\* never if it is open.
C11_CloseOnce ==
    \A l \in ExistingLots :
        /\ lots[l].closed => CloseLotError(lots[l].curator, l) = "AuctionClosed"
        /\ Len(closeLog[l]) = IF lots[l].closed THEN 1 ELSE 0

\* a settled lot and a closed, unsettled one after the operator was cleared
C11_Witness ==
    \E l, k \in ExistingLots :
        /\ lots[l].settled
        /\ lots[k].closed /\ ~lots[k].settled
        /\ Len(closeLog[l]) = 1 /\ Len(closeLog[k]) = 1
        /\ gatewayOperator = ZERO

\* C12: on an open lot a closeLot by the curator fails with
\* GatewayNotConfigured while the operator is empty and is accepted once an
\* operator is configured; every step that closes a lot is taken with a
\* non-empty operator, names exactly that operator in RevealRequested,
\* seals every envelope of the lot and leaves the rest of the bid book as
\* it was.
C12_GatewayConfiguredToClose ==
    /\ [](\A l \in ExistingLots :
             ~lots[l].closed =>
                 /\ CloseLotError(lots[l].curator, l) =
                       IF gatewayOperator = ZERO THEN "GatewayNotConfigured" ELSE "OK"
                 /\ \A a \in Addr : ~bids[l][a].isSealed)
    /\ [][\A l \in ExistingLots :
             (~lots[l].closed /\ lots'[l].closed) =>
                 /\ gatewayOperator # ZERO
                 /\ closeLog'[l] = <<[curator |-> lots[l].curator,
                                      operator |-> gatewayOperator]>>
                 /\ \A a \in Addr :
                       bids'[l][a] = [bids[l][a] EXCEPT
                                         !.isSealed = (bids[l][a].saltHash # 0)]
                 /\ lots'[l].bidCount = lots[l].bidCount]_vars

\* first a lot with a bid stayed open while the operator was empty (the
\* bid was granted to no operator), then it was closed under gw2
C12_Witness ==
    \E l \in ExistingLots :
        /\ lots[l].closed /\ lots[l].bidCount > 0
        /\ closeLog[l][1].operator = "gw2"
        /\ \A op \in OperatorArgs \ {ZERO} : ~IsAllowed(bids[l][indexToBidder[l][0]].amount, op)

\* C13: an envelope stored for a lot is sealed exactly when the lot is
\* closed, an account without an envelope has nothing sealed, and on a
\* closed lot no submitBid is accepted, so that no envelope is created or
\* rewritten after the sealing.
C13_SealedIffClosed ==
    \A l \in ExistingLots :
        /\ \A a \in Addr :
              bids[l][a].isSealed <=> (lots[l].closed /\ bids[l][a].saltHash # 0)
        /\ lots[l].closed =>
              \A a \in Addr, s \in SaltArgs, p \in BOOLEAN :
                 SubmitBidError(a, l, p, s) # "OK"

\* a lot closed with three envelopes, all of them sealed
C13_Witness ==
    \E l \in ExistingLots :
        /\ lots[l].closed /\ lots[l].bidCount = 3
        /\ \A i \in 1..3 : bids[l][lotParticipants[l][i]].isSealed

Outcome(lot) == <<lot.settled, lot.winner, lot.revealedAmount>>

\* C14: an unsettled lot has the empty winner and revealedAmount 0, and a
\* step changes settled, winner or revealedAmount of a lot only if it is a
\* settleReveal of the configured gateway operator on that lot, closed and
\* not yet settled; every other step leaves a closed lot closed and
\* unsettled.
C14_OnlySettleRevealSettles ==
    /\ [](\A l \in LotArgs :
             ~lots[l].settled => lots[l].winner = ZERO /\ lots[l].revealedAmount = 0)
    /\ [][\A l \in LotArgs :
             Outcome(lots'[l]) # Outcome(lots[l]) =>
                 /\ gatewayOperator # ZERO
                 /\ lots[l].closed /\ ~lots[l].settled
                 /\ \E i \in IndexArgs, v \in Amounts, b \in BidderArgs :
                       settleReveal(gatewayOperator, l, i, v, b)]_vars

\* a closed lot still unsettled at the end of time after the operator that
\* was asked for the reveal has been replaced and then cleared
C14_Witness ==
    \E l \in ExistingLots :
        /\ lots[l].closed /\ ~lots[l].settled /\ lots[l].bidCount > 0
        /\ now = MaxTime
        /\ gatewayOperator = ZERO
        /\ \A op \in OperatorArgs \ {ZERO} : IsAllowed(lots[l].encryptedReserve, op)

\* C15: on a settled lot every settleReveal by the configured gateway
\* operator fails with AlreadySettled, whatever index and bidder it names,
\* and no step changes settled, winner or revealedAmount of a settled lot.
C15_SettleOnce ==
    /\ [](\A l \in ExistingLots :
             (lots[l].settled /\ gatewayOperator # ZERO) =>
                 \A i \in IndexArgs, b \in BidderArgs :
                    SettleRevealError(gatewayOperator, l, i, b) = "AlreadySettled")
    /\ [][\A l \in LotArgs :
             lots[l].settled => Outcome(lots'[l]) = Outcome(lots[l])]_vars

\* a lot settled for the bidder of index 0 at amount 1 although another
\* bidder is recorded and another amount could be reported
C15_Witness ==
    \E l \in ExistingLots :
        /\ lots[l].settled /\ gatewayOperator # ZERO
        /\ lots[l].bidCount >= 2
        /\ lots[l].winner = indexToBidder[l][0]
        /\ lots[l].revealedAmount = 1

\* the first failing check of settleReveal in the documented order
FirstFailingCheck(c, l, i, b) ==
    CASE c # gatewayOperator -> "UnauthorizedGateway"
      [] c = gatewayOperator /\ ~lots[l].closed -> "AuctionNotClosed"
      [] c = gatewayOperator /\ lots[l].closed /\ lots[l].settled -> "AlreadySettled"
      [] c = gatewayOperator /\ lots[l].closed /\ ~lots[l].settled
            /\ ~lots[l].revealRequested -> "RevealNotRequested"
      [] c = gatewayOperator /\ lots[l].closed /\ ~lots[l].settled
            /\ lots[l].revealRequested
            /\ (indexToBidder[l][i] = ZERO \/ indexToBidder[l][i] # b) ->
               "UnauthorizedGateway"
      [] OTHER -> "OK"

\* C16: on an existing lot settleReveal answers, for every caller, index
\* and bidder, with the first failing check in the order: caller is not
\* the operator, lot not closed, lot settled, reveal not requested,
\* recorded bidder empty or different; it is accepted when none fails.
C16_SettleRevealCheckOrder ==
    \A l \in ExistingLots, c \in Addr, i \in IndexArgs, b \in BidderArgs :
        SettleRevealError(c, l, i, b) = FirstFailingCheck(c, l, i, b)

\* a lot with two bids, closed under gw1 and settled by gw2, which is
\* still configured
C16_Witness ==
    \E l \in ExistingLots :
        /\ lots[l].settled /\ lots[l].bidCount = 2
        /\ closeLog[l][1].operator = "gw1"
        /\ gatewayOperator = "gw2"

\* C17: createLot fails with InvalidWindow exactly when endTime <= startTime
\* or endTime <= now, with or without a valid proof; the id counter moves
\* only in a step that creates the lot of the current id with a window
\* that ends after its start and after now, appending that id to the id
\* list, so that a refused call consumes no id.
C17_InvalidWindow ==
    /\ [](\A s \in TimeArgs, e \in TimeArgs, p \in BOOLEAN :
             CreateLotError(s, e, p) = "InvalidWindow" <=> (e <= s \/ e <= now))
    /\ [](nextLotId = Len(lotIds) + 1)
    /\ [][\/ /\ nextLotId' = nextLotId
             /\ lotIds' = lotIds
          \/ /\ nextLotId' = nextLotId + 1
             /\ lotIds' = Append(lotIds, nextLotId)
             /\ lots[nextLotId].curator = ZERO
             /\ lots'[nextLotId].curator # ZERO
             /\ lots'[nextLotId].startTime < lots'[nextLotId].endTime
             /\ now < lots'[nextLotId].endTime]_vars

\* at time 2 one lot exists whose window opened at 0; a window 1..3 is
\* still accepted while 3..2 and 0..2 are refused, and the next id is 2
C17_Witness ==
    /\ now = 2
    /\ lotIds = <<1>> /\ nextLotId = 2
    /\ lots[1].startTime = 0 /\ lots[1].endTime = 3
    /\ CreateLotError(1, 3, TRUE) = "OK"
    /\ CreateLotError(3, 2, TRUE) = "InvalidWindow"
    /\ CreateLotError(0, 2, TRUE) = "InvalidWindow"

\* C18: getAllLotIds is the sequence 1, 2, ..., n of the n lots created so
\* far, getLot succeeds exactly for these ids, and no step removes a lot,
\* changes its curator or takes an id off the list.
C18_LotIdsSequential ==
    /\ [](/\ getAllLotIds = [i \in 1..(nextLotId - 1) |-> i]
          /\ \A l \in LotArgs :
                GetLotError(l) = "OK" <=> l \in 1..(nextLotId - 1))
    /\ [][/\ \A l \in LotArgs :
                lots[l].curator # ZERO => lots'[l].curator = lots[l].curator
          /\ Len(getAllLotIds') >= Len(getAllLotIds)
          /\ SubSeq(getAllLotIds', 1, Len(getAllLotIds)) = getAllLotIds]_vars

\* both lots created, the first one settled, the second one closed
C18_Witness ==
    /\ getAllLotIds = <<1, 2>>
    /\ lots[1].settled
    /\ lots[2].closed /\ ~lots[2].settled
    /\ GetLotError(0) = "LotNotFound"

\* the bidders recorded at the indices 0 .. bidCount-1 of lot l, in order
RecordedBidders(l) == [i \in 1..lots[l].bidCount |-> indexToBidder[l][i - 1]]

\* C19: in every lot the index->bidder map is non-empty exactly below
\* bidCount, the recorded bidders are pairwise different, the envelope of
\* the bidder recorded at index i carries index i, and the participant
\* list is the recorded bidders in order; a step that changes bidCount
\* raises it by one, records its bidder at the previous bidCount and emits
\* BidSubmitted with that index.
C19_DenseBidIndices ==
    /\ [](\A l \in ExistingLots :
             /\ \A i \in IndexArgs :
                   indexToBidder[l][i] # ZERO <=> i < lots[l].bidCount
             /\ \A i, j \in BidIndices(l) :
                   i # j => indexToBidder[l][i] # indexToBidder[l][j]
             /\ \A i \in BidIndices(l) : bids[l][indexToBidder[l][i]].index = i
             /\ lotParticipants[l] = RecordedBidders(l)
             /\ Len(bidLog[l]) = lots[l].bidCount
             /\ \A i \in BidIndices(l) :
                   /\ bidLog[l][i + 1].bidIndex = i
                   /\ bidLog[l][i + 1].bidder = indexToBidder[l][i])
    /\ [][\A l \in ExistingLots :
             lots'[l].bidCount # lots[l].bidCount =>
                 /\ lots'[l].bidCount = lots[l].bidCount + 1
                 /\ indexToBidder[l][lots[l].bidCount] = ZERO
                 /\ indexToBidder'[l][lots[l].bidCount] # ZERO
                 /\ bidLog'[l] = Append(bidLog[l],
                       [bidder |-> indexToBidder'[l][lots[l].bidCount],
                        bidIndex |-> lots[l].bidCount,
                        saltHash |-> bids'[l][indexToBidder'[l][lots[l].bidCount]].saltHash])
                 /\ \A i \in BidIndices(l) : indexToBidder'[l][i] = indexToBidder[l][i]]_vars

\* three bidders in the order C, A, B
C19_Witness ==
    \E l \in ExistingLots :
        /\ lots[l].bidCount = 3
        /\ lotParticipants[l] = <<"C", "A", "B">>
        /\ bidLog[l][3].bidIndex = 2 /\ bidLog[l][3].bidder = "B"

\* the stored content of an envelope apart from its seal
EnvelopeContent(e) == <<e.amount, e.saltHash, e.submittedAt, e.index>>

\* the bid book of lot l as it stands when the lot closes
FrozenBook(l) ==
    <<lots[l].encryptedWinningBid, lots[l].encryptedWinningIndex, lots[l].bidCount,
      lotParticipants[l], indexToBidder[l], saltRegistry[l],
      [a \in Addr |-> EnvelopeContent(bids[l][a])]>>

\* C20: on a closed lot every submitBid with a non-empty salt fails with
\* AuctionClosed, inside the bidding window as well as outside, and no
\* step changes the winning handles, bidCount, the participant list, the
\* index->bidder map, the used salts or the content of any envelope of a
\* closed lot.
C20_FrozenOnceClosed ==
    /\ [](\A l \in ExistingLots :
             lots[l].closed =>
                 \A a \in Addr, s \in SaltArgs \ {0}, p \in BOOLEAN :
                    SubmitBidError(a, l, p, s) = "AuctionClosed")
    /\ [][\A l \in ExistingLots :
             lots[l].closed => FrozenBook(l)' = FrozenBook(l)]_vars

\* a lot closed under gw1 inside its window after one bid, with bidders
\* and salts left, where the operator was replaced by gw2 after the
\* closing and gw2 can settle it
C20_Witness ==
    \E l \in ExistingLots :
        /\ lots[l].closed /\ ~lots[l].settled /\ InsideWindow(l)
        /\ lots[l].bidCount = 1
        /\ FreshSalts(l) # {}
        /\ closeLog[l][1].operator = "gw1"
        /\ gatewayOperator = "gw2"
        /\ IsAllowed(lots[l].encryptedWinningBid, "gw2")

\* the fields of a lot written by createLot from its arguments
LotIdentity(lot) ==
    <<lot.curator, lot.startTime, lot.endTime, lot.encryptedReserve, lot.metadataURI>>

\* C21: no step changes curator, startTime, endTime, encryptedReserve or
\* metadataURI of an existing lot, and every existing lot carries the
\* reserve handle imported at its creation.
C21_LotIdentityImmutable ==
    /\ [](\A l \in ExistingLots : lots[l].encryptedReserve = ExternalReserve(l))
    /\ [][\A l \in ExistingLots :
             LotIdentity(lots'[l]) = LotIdentity(lots[l])]_vars

\* the first lot settled with two bids and a second lot created after an
\* operator was configured
C21_Witness ==
    /\ lots[1].settled /\ lots[1].bidCount = 2
    /\ lots[2].curator # ZERO
    /\ IsAllowed(ExternalReserve(1), "gw1")
    /\ gatewayOperator = "gw1"

\* the salts of the envelopes stored for lot l
EnvelopeSalts(l) == {bids[l][a].saltHash : a \in Participants(l)}

BidEvents(l) ==
    [i \in 1..lots[l].bidCount |->
        <<"BidSubmitted", l, indexToBidder[l][i - 1], i - 1,
          bids[l][indexToBidder[l][i - 1]].saltHash>>]

\* the events a lot in its present state has emitted: one LotCreated, its
\* BidSubmitted events, the closing pair if closed, RevealSettled if settled
LotEvents(l) ==
    IF lots[l].curator = ZERO THEN <<>>
    ELSE <<<<"LotCreated", l, lots[l].curator, lots[l].startTime, lots[l].endTime,
             lots[l].metadataURI>>>>
         \o BidEvents(l)
         \o (IF lots[l].closed
             THEN <<<<"LotClosed", l, lots[l].curator>>,
                    <<"RevealRequested", l, closeLog[l][1].operator>>>>
             ELSE <<>>)
         \o (IF lots[l].settled
             THEN <<<<"RevealSettled", l, lots[l].winner, lots[l].revealedAmount>>>>
             ELSE <<>>)

\* the number of events a step owes to lot l
EventsOwed(l) ==
    (IF lots[l].curator = ZERO /\ lots'[l].curator # ZERO THEN 1 ELSE 0)
    + (lots'[l].bidCount - lots[l].bidCount)
    + (IF ~lots[l].closed /\ lots'[l].closed THEN 2 ELSE 0)
    + (IF ~lots[l].settled /\ lots'[l].settled THEN 1 ELSE 0)

\* C23: the log of every lot is its LotCreated, then its BidSubmitted
\* events with indices 0, 1, 2, ... in order, then at most one LotClosed /
\* RevealRequested pair, then at most one RevealSettled; a step only
\* appends to a lot's log, by exactly the events of the call it is (one
\* for a creation, a bid or a settlement, two for a closing), the
\* RevealRequested of a closing step names the operator configured in
\* that step, and the operator changes only together with a
\* GatewayOperatorUpdated naming the new operator, which touches no lot's
\* log.
C23_EventLog ==
    /\ [](\A l \in LotArgs : lotLog[l] = LotEvents(l))
    /\ [](operatorEvent = <<>> \/ operatorEvent = <<<<"GatewayOperatorUpdated", gatewayOperator>>>>)
    /\ [][\A l \in LotArgs :
             /\ Len(lotLog'[l]) = Len(lotLog[l]) + EventsOwed(l)
             /\ SubSeq(lotLog'[l], 1, Len(lotLog[l])) = lotLog[l]
             /\ (~lots[l].closed /\ lots'[l].closed) =>
                   SubSeq(lotLog'[l], Len(lotLog[l]) + 1, Len(lotLog'[l])) =
                      <<<<"LotClosed", l, lots[l].curator>>,
                        <<"RevealRequested", l, gatewayOperator>>>>
             /\ (gatewayOperator' # gatewayOperator \/ operatorEvent' # operatorEvent) =>
                   /\ operatorEvent' = <<<<"GatewayOperatorUpdated", gatewayOperator'>>>>
                   /\ lotLog'[l] = lotLog[l]]_vars

\* a lot with two bids whose reveal was requested from gw1 and settled by
\* gw2: six events
C23_Witness ==
    \E l \in ExistingLots :
        /\ Len(lotLog[l]) = 6
        /\ lotLog[l][5] = <<"RevealRequested", l, "gw1">>
        /\ lotLog[l][6][1] = "RevealSettled"
        /\ operatorEvent = <<<<"GatewayOperatorUpdated", "gw2">>>>

\* C24: on an existing lot getBid is refused with NotCurator exactly for
\* the callers that are neither the bidder asked for, nor the lot's
\* curator, nor the owner, and it returns the five stored fields of the
\* bidder's envelope: the bid's handle, salt, time, index and seal for a
\* participant, zeros and false for everyone else.
C24_GetBidAccess ==
    \A l \in ExistingLots, b \in Addr :
        /\ \A c \in Addr :
              GetBidError(c, l, b) =
                 IF c \in {b, lots[l].curator, owner} THEN "OK" ELSE "NotCurator"
        /\ b \in Participants(l) =>
              getBid(l, b) = <<bids[l][b].amount, bids[l][b].saltHash,
                               bids[l][b].submittedAt, bids[l][b].index, lots[l].closed>>
        /\ b \in Participants(l) =>
              /\ getBid(l, b)[1] = ExternalBid(l, getBid(l, b)[4])
              /\ getBid(l, b)[2] # 0
        /\ b \notin Participants(l) => getBid(l, b) = <<0, 0, 0, 0, FALSE>>

\* a closed lot with the envelopes of A and B while C has none and an
\* operator is configured
C24_Witness ==
    \E l \in ExistingLots :
        /\ lots[l].closed
        /\ Participants(l) = {"A", "B"}
        /\ getBid(l, "A")[5] /\ ~getBid(l, "C")[5]
        /\ GetBidError("B", l, "A") = "NotCurator"
        /\ GetBidError(gatewayOperator, l, "A") = "NotCurator"

\* the lot ids no createLot has handed out yet
NeverCreated == {l \in LotArgs : l = 0 \/ l > Len(lotIds)}

\* everything the contract stores under a lot id
LotState(l) ==
    <<lots[l], bids[l], saltRegistry[l], indexToBidder[l], lotParticipants[l], lotLog[l]>>

\* C25: for a lot id that was never created (0, or greater than the number
\* of lots created) submitBid, closeLot, settleReveal, getLot and getBid
\* answer LotNotFound for every caller, salt, proof, index and bidder and
\* at every time, and nothing stored under such an id changes except by
\* the createLot that hands the id out.
C25_LotNotFoundFirst ==
    /\ [](\A l \in NeverCreated :
             /\ \A c \in Addr, p \in BOOLEAN, s \in SaltArgs :
                   SubmitBidError(c, l, p, s) = "LotNotFound"
             /\ \A c \in Addr : CloseLotError(c, l) = "LotNotFound"
             /\ \A c \in Addr, i \in IndexArgs, b \in BidderArgs :
                   SettleRevealError(c, l, i, b) = "LotNotFound"
             /\ GetLotError(l) = "LotNotFound"
             /\ \A c \in Addr, b \in Addr : GetBidError(c, l, b) = "LotNotFound")
    /\ [][\A l \in NeverCreated :
             LotState(l)' # LotState(l) =>
                 /\ l = nextLotId /\ nextLotId' = l + 1
                 /\ lotIds' = Append(lotIds, l)
                 /\ lots'[l].curator # ZERO]_vars

\* lot 1 is closed with a bid and an operator configured inside the
\* window, while ids 0 and 2 were never created and are refused to the
\* curator, the operator, an empty salt and the recorded bidder alike
C25_Witness ==
    /\ {0, 2} \subseteq NeverCreated /\ 1 \notin NeverCreated
    /\ lots[1].closed /\ lots[1].bidCount > 0
    /\ gatewayOperator # ZERO
    /\ InsideWindow(1)
    /\ SubmitBidError("A", 2, TRUE, 0) = "LotNotFound"
    /\ CloseLotError(lots[1].curator, 0) = "LotNotFound"
    /\ SettleRevealError(gatewayOperator, 2, 0, indexToBidder[1][0]) = "LotNotFound"
    /\ GetBidError(owner, 0, "A") = "LotNotFound"

\* C26: updateGatewayOperator answers NotOwner to every caller but the
\* owner and is accepted from the owner; the owner is the deployer in
\* every state; gatewayOperator is empty as long as no
\* GatewayOperatorUpdated was emitted; and a step that changes
\* gatewayOperator or emits GatewayOperatorUpdated is the owner's
\* updateGatewayOperator with the new operator as argument, which stores
\* the argument and emits the event naming it.
C26_OwnerOnlyOperator ==
    /\ [](owner = DEPLOYER)
    /\ [](\A c \in Addr :
             UpdateGatewayOperatorError(c) = IF c = DEPLOYER THEN "OK" ELSE "NotOwner")
    /\ [](operatorEvent = <<>> => gatewayOperator = ZERO)
    /\ [][(gatewayOperator' # gatewayOperator \/ operatorEvent' # operatorEvent) =>
             /\ updateGatewayOperator(DEPLOYER, gatewayOperator')
             /\ operatorEvent' = <<<<"GatewayOperatorUpdated", gatewayOperator'>>>>]_vars

\* the owner has replaced gw1 by gw2 after a lot was closed under gw1;
\* gw1 and gw2 themselves are refused
C26_Witness ==
    /\ gatewayOperator = "gw2"
    /\ operatorEvent = <<<<"GatewayOperatorUpdated", "gw2">>>>
    /\ \E l \in ExistingLots :
          /\ Len(closeLog[l]) > 0 /\ closeLog[l][1].operator = "gw1"
          /\ lots[l].bidCount > 0
          /\ IsAllowed(lots[l].encryptedWinningBid, "gw2")
    /\ UpdateGatewayOperatorError("gw1") = "NotOwner"
    /\ UpdateGatewayOperatorError("gw2") = "NotOwner"

\* C27: when from some point on a non-empty gateway operator is always
\* configured and the configured operator's settleReveal with the index
\* and bidder of a recorded bid is weakly fair, every lot that is closed
\* with at least one bid is eventually settled.
C27_ClosedLeadsToSettled ==
    <>[](gatewayOperator # ZERO) =>
        \A l \in LotArgs :
            (lots[l].closed /\ lots[l].bidCount >= 1) ~> lots[l].settled

\* a lot closed under gw1 with two bids was settled by gw2, configured
\* after the closing
C27_Witness ==
    \E l \in ExistingLots :
        /\ lots[l].settled /\ lots[l].bidCount = 2
        /\ closeLog[l][1].operator = "gw1"
        /\ gatewayOperator = "gw2"
        /\ lots[l].winner \in Participants(l)

\* the bid book of the end-to-end run: A bid 2000 and then B bid 3000,
\* both at time 100, on a lot open from 60 to 3660
ScenarioBook(l) ==
    /\ lots[l].startTime = ScenarioStart /\ lots[l].endTime = ScenarioEnd
    /\ lotParticipants[l] = <<"A", "B">>
    /\ cipher[bids[l]["A"].amount] = 2000 /\ bids[l]["A"].submittedAt = 100
    /\ cipher[bids[l]["B"].amount] = 3000 /\ bids[l]["B"].submittedAt = 100

\* C28: whenever a lot with window [60, 3660] holds the bids of A (2000)
\* and then B (3000) made at time 100, A has index 0 and B index 1, the
\* running-maximum index is 1 and is the cleartext of
\* encryptedWinningIndex, and once the curator has closed the lot (with
\* RevealRequested as last event) settleReveal(lot, 1, 3000, B) of the
\* gateway operator is accepted; that call ends with winner = B,
\* revealedAmount = 3000 and settled = true.
C28_EndToEnd ==
    /\ [](\A l \in ExistingLots :
             ScenarioBook(l) =>
                 /\ bids[l]["A"].index = 0 /\ bids[l]["B"].index = 1
                 /\ indexToBidder[l][1] = "B"
                 /\ EarliestArgMax(l) = 1
                 /\ cipher[lots[l].encryptedWinningIndex] = 1
                 /\ cipher[lots[l].encryptedWinningBid] = 3000
                 /\ (lots[l].closed /\ ~lots[l].settled) =>
                       /\ lotLog[l][Len(lotLog[l])] = <<"RevealRequested", l, gatewayOperator>>
                       /\ SettleRevealError(gatewayOperator, l, 1, "B") = "OK")
    /\ [][\A l \in ExistingLots :
             (ScenarioBook(l) /\ settleReveal(gatewayOperator, l, 1, 3000, "B")) =>
                 /\ lots'[l].winner = "B"
                 /\ lots'[l].revealedAmount = 3000
                 /\ lots'[l].settled
                 /\ lotLog'[l] = Append(lotLog[l], <<"RevealSettled", l, "B", 3000>>)]_vars

\* the end of the run: the six events of the scenario in order and the
\* lot settled on B at 3000
C28_Witness ==
    /\ lotLog[1] = << <<"LotCreated", 1, "cur", 60, 3660, URI>>,
                      <<"BidSubmitted", 1, "A", 0, 1>>,
                      <<"BidSubmitted", 1, "B", 1, 2>>,
                      <<"LotClosed", 1, "cur">>,
                      <<"RevealRequested", 1, "gw1">>,
                      <<"RevealSettled", 1, "B", 3000>> >>
    /\ ScenarioBook(1)
    /\ lots[1].winner = "B" /\ lots[1].revealedAmount = 3000 /\ lots[1].settled
    /\ EarliestArgMax(1) = 1

\* the first precondition of submitBid that fails, in the order of C29
FirstFailingBidCheck(c, l, s) ==
    CASE s = 0 -> "EmptySalt"
      [] s # 0 /\ ~Open(l) -> "AuctionClosed"
      [] s # 0 /\ Open(l) /\ ~InsideWindow(l) -> "OutsideBiddingWindow"
      [] s # 0 /\ Open(l) /\ InsideWindow(l) /\ s \in EnvelopeSalts(l) -> "SaltAlreadyUsed"
      [] s # 0 /\ Open(l) /\ InsideWindow(l) /\ s \notin EnvelopeSalts(l)
            /\ c \in Participants(l) -> "BidAlreadySubmitted"
      [] OTHER -> "OK"

\* C29: on an existing lot submitBid answers, for every caller and salt,
\* with the first failing precondition in the order: empty salt, lot
\* closed, now outside [startTime, endTime], salt already used in the
\* lot, caller already has an envelope (and with the proof's verdict when
\* none fails); a participant resubmitting their own salt on an open lot
\* inside the window gets SaltAlreadyUsed, and an empty salt on a closed
\* lot gets EmptySalt.
C29_SubmitBidCheckOrder ==
    \A l \in ExistingLots :
        /\ \A c \in Addr, s \in SaltArgs, p \in BOOLEAN :
              SubmitBidError(c, l, p, s) =
                 IF FirstFailingBidCheck(c, l, s) # "OK" THEN FirstFailingBidCheck(c, l, s)
                 ELSE IF p THEN "OK" ELSE "InvalidProof"
        /\ (Open(l) /\ InsideWindow(l)) =>
              \A b \in Participants(l) :
                 SubmitBidError(b, l, TRUE, bids[l][b].saltHash) = "SaltAlreadyUsed"
        /\ ~Open(l) => \A c \in Addr : SubmitBidError(c, l, TRUE, 0) = "EmptySalt"

\* an open lot inside its window where A, holding an envelope, is refused
\* with SaltAlreadyUsed on its own salt and on B's salt, with
\* BidAlreadySubmitted on a fresh salt, and with EmptySalt on the empty one
C29_Witness ==
    \E l \in ExistingLots :
        /\ Open(l) /\ InsideWindow(l)
        /\ Participants(l) = {"A", "B"}
        /\ SubmitBidError("A", l, TRUE, bids[l]["A"].saltHash) = "SaltAlreadyUsed"
        /\ SubmitBidError("A", l, TRUE, bids[l]["B"].saltHash) = "SaltAlreadyUsed"
        /\ \E s \in FreshSalts(l) :
              /\ SubmitBidError("A", l, TRUE, s) = "BidAlreadySubmitted"
              /\ SubmitBidError("C", l, TRUE, s) = "OK"
        /\ SubmitBidError("A", l, TRUE, 0) = "EmptySalt"

\* the identities authorized on the amount handle of b's envelope in lot l
BidGrantees(l, b) == {w \in Addr \cup {THIS} : IsAllowed(bids[l][b].amount, w)}

\* the configured operator as a set of identities
Configured(op) == IF op = ZERO THEN {} ELSE {op}

\* the lot-level handles currently stored in the existing lots
CurrentLotHandles == UNION {LotHandles(l) : l \in ExistingLots}

\* a step of updateGatewayOperator
OperatorStep == gatewayOperator' # gatewayOperator \/ operatorEvent' # operatorEvent

\* C30 as stated: the amount handle of an envelope is authorized, from its
\* submission on and in every later state, for exactly the contract, the
\* bidder and the operator configured at submission; the lot's curator
\* and the other bidders are never authorized on it.
C30_Original ==
    /\ [](\A l \in ExistingLots : \A b \in Participants(l) :
             /\ lots[l].curator \notin BidGrantees(l, b) \ {b}
             /\ BidGrantees(l, b) \cap Participants(l) = {b})
    /\ [][\A l \in ExistingLots : \A b \in Participants(l)' :
             BidGrantees(l, b)' =
                IF b \in Participants(l) THEN BidGrantees(l, b)
                ELSE {THIS, b} \cup Configured(gatewayOperator)]_vars

\* C30 (amended): the amount handle of an envelope is authorized for the
\* contract and the bidder, and at its submission for the configured
\* operator. Every step adds to the authorizations of the handle exactly
\* those of the places the step stores it in: as an envelope's amount, the
\* contract, the bidder and the configured operator, and for the first
\* bid of a lot (index 0), stored as encryptedWinningBid, the lot's curator
\* as well; as the reserve of a new lot, the contract, the curator and the
\* configured operator; as a current lot-level handle at an
\* updateGatewayOperator, the non-empty operator named. So a handle
\* passed once, as a bid of index >= 1, keeps exactly the authorizations
\* of its submission and is never authorized for the lot's curator or
\* another of the lot's bidders.
C30_BidHandleGrants ==
    /\ [](\A l \in ExistingLots : \A b \in Participants(l) :
             LET h == bids[l][b].amount
                 envelopes == {e \in ExistingLots \X Addr :
                                  /\ e[2] \in Participants(e[1])
                                  /\ bids[e[1]][e[2]].amount = h}
             IN  /\ {THIS, b} \subseteq BidGrantees(l, b)
                 /\ (/\ bids[l][b].index > 0
                     /\ envelopes = {<<l, b>>}
                     /\ \A x \in ExistingLots : lots[x].encryptedReserve # h) =>
                       /\ BidGrantees(l, b) \cap (Participants(l) \cup {lots[l].curator})
                             = {b}
                       /\ h \notin CurrentLotHandles)
    /\ [][\A l \in ExistingLots : \A b \in Participants(l)' :
             LET h == bids'[l][b].amount
                 submitted == {e \in ExistingLots \X Addr :
                                  /\ e[2] \in Participants(e[1])' \ Participants(e[1])
                                  /\ bids'[e[1]][e[2]].amount = h}
                 bySubmit == UNION {{THIS, e[2]} \cup Configured(gatewayOperator)
                                       \cup (IF bids'[e[1]][e[2]].index = 0
                                             THEN {lots[e[1]].curator} ELSE {}) :
                                    e \in submitted}
                 byCreate == IF /\ nextLotId' # nextLotId
                                /\ lots'[nextLotId].encryptedReserve = h
                             THEN {THIS, lots'[nextLotId].curator}
                                     \cup Configured(gatewayOperator)
                             ELSE {}
                 byOperator == IF OperatorStep /\ h \in CurrentLotHandles
                               THEN Configured(gatewayOperator') ELSE {}
             IN  {w \in Addr \cup {THIS} : <<h, w>> \in acl'} =
                    {w \in Addr \cup {THIS} : <<h, w>> \in acl}
                       \cup bySubmit \cup byCreate \cup byOperator]_vars

\* a lot created by cur under gw1 and rotated to gw2 after its two bids:
\* the first bid, of A, is authorized for the curator and gw1 and not for
\* gw2, while the second, for which cur passed the lot's reserve again, is
\* authorized for gw2 through the reserve
C30_Witness ==
    \E l \in ExistingLots :
        /\ lots[l].bidCount = 2 /\ gatewayOperator = "gw2"
        /\ indexToBidder[l][0] = "A" /\ indexToBidder[l][1] = lots[l].curator
        /\ BidGrantees(l, "A") = {THIS, "A", lots[l].curator, "gw1"}
        /\ bids[l][lots[l].curator].amount = lots[l].encryptedReserve
        /\ BidGrantees(l, lots[l].curator) = {THIS, lots[l].curator, "gw1", "gw2"}

\* C31: closed and revealRequested are equal in every lot of every state
\* and no step changes one without the other; so closeLot never answers
\* RevealAlreadyRequested and settleReveal never answers
\* RevealNotRequested, whoever calls and whatever the arguments.
C31_ClosedIsRequested ==
    /\ [](\A l \in LotArgs :
             /\ lots[l].closed = lots[l].revealRequested
             /\ \A c \in Addr : CloseLotError(c, l) # "RevealAlreadyRequested"
             /\ \A c \in Addr, i \in IndexArgs, b \in BidderArgs :
                   SettleRevealError(c, l, i, b) # "RevealNotRequested")
    /\ [][\A l \in LotArgs :
             (lots'[l].closed # lots[l].closed
                 \/ lots'[l].revealRequested # lots[l].revealRequested) =>
                 /\ ~lots[l].closed /\ ~lots[l].revealRequested
                 /\ lots'[l].closed /\ lots'[l].revealRequested
                 /\ closeLot(lots[l].curator, l)]_vars

\* a closed lot whose reveal is requested: the curator's second closeLot
\* gets AuctionClosed and the operator's settleReveal passes the
\* revealRequested test
C31_Witness ==
    \E l \in ExistingLots :
        /\ lots[l].closed /\ lots[l].revealRequested /\ ~lots[l].settled
        /\ lots[l].bidCount > 0
        /\ CloseLotError(lots[l].curator, l) = "AuctionClosed"
        /\ SettleRevealError(gatewayOperator, l, 0, indexToBidder[l][0]) = "OK"

\* a lot closed before any bid was made
ClosedEmpty(l) == lots[l].closed /\ lots[l].bidCount = 0

\* C32: on a lot closed with bidCount = 0 every settleReveal is refused,
\* for every caller, index and bidder, with UnauthorizedGateway when the
\* caller is the gateway operator; the lot is unsettled with empty winner,
\* and every step leaves it closed with bidCount = 0.
C32_EmptyLotNeverSettles ==
    /\ [](\A l \in ExistingLots :
             ClosedEmpty(l) =>
                 /\ \A c \in Addr, i \in IndexArgs, b \in BidderArgs :
                       /\ SettleRevealError(c, l, i, b) = "UnauthorizedGateway"
                       /\ SettleRevealError(c, l, i, b) # "OK"
                 /\ ~lots[l].settled
                 /\ lots[l].winner = ZERO /\ lots[l].revealedAmount = 0
                 /\ Phase(lots[l]) = "Closed")
    /\ [][\A l \in ExistingLots : ClosedEmpty(l) => ClosedEmpty(l)']_vars

\* a lot closed without bids after its window has passed, an operator
\* being configured and refused
C32_Witness ==
    \E l \in ExistingLots :
        /\ ClosedEmpty(l)
        /\ now > lots[l].endTime
        /\ gatewayOperator = "gw2"
        /\ SettleRevealError("gw2", l, 0, "A") = "UnauthorizedGateway"
        /\ SettleRevealError("gw2", l, 0, ZERO) = "UnauthorizedGateway"

\* C33: while an operator is configured the curator's closeLot on an open
\* lot is accepted at every time, before startTime, inside the window and
\* after endTime; on a closed lot every submitBid with a non-empty salt
\* answers AuctionClosed, inside the window too; and a lot becomes closed
\* only by its curator's closeLot, never by the passing of time.
C33_CloseAnyTime ==
    /\ [](\A l \in ExistingLots :
             /\ (Open(l) /\ gatewayOperator # ZERO) =>
                   CloseLotError(lots[l].curator, l) = "OK"
             /\ ~Open(l) =>
                   \A c \in Addr, p \in BOOLEAN, s \in SaltArgs \ {0} :
                      SubmitBidError(c, l, p, s) = "AuctionClosed")
    /\ [][\A l \in ExistingLots :
             /\ (Open(l) /\ now' # now) => Open(l)'
             /\ (Open(l) /\ ~Open(l)') => closeLot(lots[l].curator, l)]_vars

\* a lot closed before its startTime, which refuses a fresh bid
C33_Witness ==
    \E l \in ExistingLots :
        /\ ~Open(l)
        /\ now < lots[l].startTime
        /\ \E s \in FreshSalts(l) : SubmitBidError("A", l, TRUE, s) = "AuctionClosed"

\* C34: the owner's updateGatewayOperator is accepted with the empty
\* identity as with any other and leaves the operator it names; while the
\* operator is empty no closeLot on an open lot is accepted (the curator
\* gets GatewayNotConfigured) and every settleReveal on every lot is
\* refused with UnauthorizedGateway; while it is non-empty the curator can
\* close an open lot and the operator can settle a closed unsettled lot
\* that has a bid; a step that changes the operator changes no lot field,
\* envelope, salt, index entry or participant list.
C34_EmptyOperator ==
    /\ [](operatorEvent # <<>> => gatewayOperator = operatorEvent[1][2])
    /\ [](\A l \in ExistingLots :
             /\ gatewayOperator = ZERO =>
                   /\ Open(l) =>
                         /\ \A c \in Addr : CloseLotError(c, l) # "OK"
                         /\ CloseLotError(lots[l].curator, l) = "GatewayNotConfigured"
                   /\ \A c \in Addr, i \in IndexArgs, b \in BidderArgs :
                         SettleRevealError(c, l, i, b) = "UnauthorizedGateway"
             /\ gatewayOperator # ZERO =>
                   /\ Open(l) => CloseLotError(lots[l].curator, l) = "OK"
                   /\ (lots[l].closed /\ ~lots[l].settled /\ lots[l].bidCount > 0) =>
                         SettleRevealError(gatewayOperator, l, 0, indexToBidder[l][0]) = "OK")
    /\ [][gatewayOperator' # gatewayOperator =>
             /\ updateGatewayOperator(owner, gatewayOperator')
             /\ \A l \in LotArgs : LotState(l)' = LotState(l)]_vars

\* the owner has emptied the operator after a lot with a bid was closed
\* under gw1: the lot cannot be settled, by gw1 or anyone
C34_Witness ==
    \E l \in ExistingLots :
        /\ gatewayOperator = ZERO
        /\ operatorEvent = <<<<"GatewayOperatorUpdated", ZERO>>>>
        /\ lots[l].closed /\ ~lots[l].settled /\ lots[l].bidCount > 0
        /\ closeLog[l][1].operator = "gw1"
        /\ SettleRevealError("gw1", l, 0, indexToBidder[l][0]) = "UnauthorizedGateway"

\* the amount handles of the envelopes submitted so far
EnvelopeHandles ==
    UNION {{bids[l][b].amount : b \in Participants(l)} : l \in ExistingLots}

\* C35 as stated: no step removes an authorization, and an
\* updateGatewayOperator adds for the new operator exactly the current
\* lot-level handles of the lots and no amount handle of an envelope
\* submitted before.
C35_Original ==
    [][/\ acl \subseteq acl'
       /\ OperatorStep =>
             /\ acl' \ acl \subseteq {<<h, gatewayOperator'>> : h \in CurrentLotHandles}
             /\ gatewayOperator' # ZERO =>
                   \A h \in CurrentLotHandles : <<h, gatewayOperator'>> \in acl'
             /\ \A h \in EnvelopeHandles :
                   <<h, gatewayOperator'>> \in acl' => <<h, gatewayOperator'>> \in acl]_vars

\* C35 (amended): no step removes an authorization, so a replaced operator
\* keeps every grant it had; an updateGatewayOperator adds for the new
\* operator exactly the current lot-level handles of the lots, and so an
\* amount handle of an envelope submitted before exactly when that handle
\* is at that moment a lot-level handle: the encryptedWinningBid of a lot
\* that holds only its first bid, or, for an encrypted input that was
\* passed both as a bid and as a reserve, the encryptedReserve of a lot.
C35_GrantsOnlyGrow ==
    [][/\ acl \subseteq acl'
       /\ OperatorStep =>
             /\ acl' \ acl \subseteq {<<h, gatewayOperator'>> : h \in CurrentLotHandles}
             /\ gatewayOperator' # ZERO =>
                   \A h \in CurrentLotHandles : <<h, gatewayOperator'>> \in acl'
             /\ \A h \in EnvelopeHandles :
                   (<<h, gatewayOperator'>> \in acl' \ acl) =>
                       \E x \in ExistingLots :
                          \/ /\ h = lots[x].encryptedWinningBid
                             /\ lots[x].bidCount = 1
                             /\ h = bids[x][indexToBidder[x][0]].amount
                          \/ h = lots[x].encryptedReserve
             /\ \A h \in EnvelopeHandles \ CurrentLotHandles :
                   <<h, gatewayOperator'>> \in acl' <=> <<h, gatewayOperator'>> \in acl]_vars

\* after gw1 was replaced by gw2 on a lot with two bids made under gw1:
\* gw1 keeps the reserve, both bids and the winning handles, gw2 has the
\* three lot-level handles and not the first bid; the second bid, whose
\* input the curator had passed as the reserve of the lot, it has
C35_Witness ==
    \E l \in ExistingLots :
        /\ gatewayOperator = "gw2" /\ lots[l].bidCount = 2
        /\ \A h \in LotHandles(l) : IsAllowed(h, "gw1") /\ IsAllowed(h, "gw2")
        /\ \A b \in Participants(l) : IsAllowed(bids[l][b].amount, "gw1")
        /\ ~IsAllowed(bids[l][indexToBidder[l][0]].amount, "gw2")
        /\ bids[l][indexToBidder[l][1]].amount = lots[l].encryptedReserve
        /\ IsAllowed(bids[l][indexToBidder[l][1]].amount, "gw2")

\* C36: a step changes what is stored under at most one lot id, so no
\* submitBid, closeLot or settleReveal on a lot touches another lot; and
\* on an open lot inside its window a bid with a valid proof and a
\* non-empty salt is accepted exactly when the salt is unused in that lot
\* and the caller has no envelope in that lot, whatever salts and
\* envelopes the other lots hold.
C36_LotsIndependent ==
    /\ [](\A l \in ExistingLots :
             (Open(l) /\ InsideWindow(l)) =>
                 \A c \in Addr, s \in SaltArgs \ {0} :
                    SubmitBidError(c, l, TRUE, s) = "OK" <=>
                       (s \notin EnvelopeSalts(l) /\ c \notin Participants(l)))
    /\ [][\A l1 \in LotArgs, l2 \in LotArgs :
             (l1 # l2 /\ LotState(l1)' # LotState(l1)) => LotState(l2)' = LotState(l2)]_vars

\* bidder A holds an envelope with the same salt in lot 1 and in lot 2,
\* lot 1 being closed and settled while lot 2 is still open
C36_Witness ==
    /\ {1, 2} \subseteq ExistingLots
    /\ bids[1]["A"].saltHash = 1 /\ bids[2]["A"].saltHash = 1
    /\ lots[1].settled /\ lots[1].winner = "A"
    /\ Open(2) /\ lots[2].winner = ZERO
    /\ saltRegistry[1] = {1} /\ saltRegistry[2] = {1}

\* the initializations in progress
Running == {r \in RunIds : runs[r].status = "running"}

\* C37: for any interleaving of the ensureFheInstance calls of the
\* callers with the attempts, under the listeners the repository
\* registers and without resets, at most one initialization is in
\* progress, and it is the one initPromise stands for; a step made while
\* one is in progress starts no other; every caller waits on that
\* initialization or holds the one instance installed; and once an
\* instance is installed it stays and no initialization is started any
\* more.
C37_SingleInitialization ==
    /\ [](/\ Cardinality(Running) <= 1
          /\ \A r \in Running : initPromise = r /\ initState = "initializing"
          /\ \A c \in CallerIds :
                /\ calls[c].status = "pending" => calls[c].promise \in Running
                /\ calls[c].status = "fulfilled" =>
                      calls[c].value = fheInstance /\ fheInstance # NoInstance)
    /\ [][/\ Running # {} => nextRun' = nextRun
          /\ fheInstance # NoInstance =>
                /\ fheInstance' = fheInstance
                /\ nextRun' = nextRun
                /\ Running' = {}]_vars

\* after a failed initialization both callers wait on the second one,
\* which is in its second attempt
C37_Witness ==
    /\ runs[1].status = "rejected"
    /\ Running = {2} /\ runs[2].attempt = 2
    /\ calls["c1"].status = "pending" /\ calls["c1"].promise = 2
    /\ calls["c2"].status = "pending" /\ calls["c2"].promise = 2
    /\ nextRun = 3

\* the initializations in progress that were started before a reset
Stale == {r \in Running : runs[r].stale}

\* C38: a reset leaves the state idle with no instance and no promise; an
\* instance installed is never that of an initialization a reset has
\* overtaken; and when such an initialization ends, by success or by its
\* last failure, fheInstance, initState and initPromise are left as they
\* are.
C38_ResetIsolation ==
    /\ [](fheInstance # NoInstance => ~runs[fheInstance].stale)
    /\ [][\A r \in Stale :
             runs'[r].status # "running" =>
                 /\ fheInstance' = fheInstance
                 /\ initState' = initState
                 /\ initPromise' = initPromise]_vars

\* C39: an initialization never goes beyond attempt MAX_RETRY_ATTEMPTS;
\* it ends either by a successful attempt, which installs its instance
\* and sets the state ready, or by the failure of attempt
\* MAX_RETRY_ATTEMPTS, which clears initPromise and sets the state error;
\* in the error state no promise and no instance is left, an
\* ensureFheInstance call made there sets the state to initializing and
\* notifies the listeners, and the call that has notified them starts a
\* new initialization at attempt 1 and waits on its promise; and when
\* every attempt ends, every initialization in progress ends and the
\* state does not remain initializing.
C39_InitializationTerminates ==
    /\ [](\A r \in RunIds : runs[r].attempt <= MAX_RETRY_ATTEMPTS)
    /\ [](initState = "error" => initPromise = NoPromise /\ fheInstance = NoInstance)
    /\ [][\A r \in Running :
             runs'[r].status # "running" =>
                 \/ /\ runs'[r].status = "resolved"
                    /\ initState' = "ready" /\ fheInstance' = r
                 \/ /\ runs'[r].status = "rejected"
                    /\ runs[r].attempt = MAX_RETRY_ATTEMPTS
                    /\ initState' = "error" /\ initPromise' = NoPromise]_vars
    /\ [][\A c \in CallerIds :
             (initState = "error" /\ ensureFheInstance(c)) =>
                 /\ initState' = "initializing"
                 /\ stack' = Append(stack, Frame("ensure", c, 0))]_vars
    /\ [][Len(stack') < Len(stack) =>
             /\ nextRun' = nextRun + 1
             /\ initPromise' = nextRun
             /\ runs'[nextRun] = [status |-> "running", attempt |-> 1, stale |-> FALSE]
             /\ calls'[Top.caller] =
                    [status |-> "pending", promise |-> nextRun, value |-> NoInstance]]_vars
    /\ \A r \in RunIds :
          (runs[r].status = "running") ~> (runs[r].status \in {"resolved", "rejected"})
    /\ (initState = "initializing") ~> (initState \in {"ready", "error"})

\* the first initialization was rejected at its third attempt and a later
\* call has started the second one
C39_Witness ==
    /\ runs[1] = [status |-> "rejected", attempt |-> MAX_RETRY_ATTEMPTS, stale |-> FALSE]
    /\ runs[2].status = "running" /\ runs[2].attempt = 1
    /\ initPromise = 2 /\ initState = "initializing"
    /\ \E c \in CallerIds : calls[c].status = "rejected" /\ calls[c].promise = 1
====
